---- MODULE Spec2Model ----
(***************************************************************************)
(* Model of the extraction-result reconciliation and review-triage engine  *)
(* of medical-chart-backend: the two run drivers (run_extraction_task and  *)
(* process_chart_with_template), the two AI stage calls with their retry   *)
(* loops, the similarity scorer, the persistence of the one JSON document  *)
(* per chart and the human review of single fields.                        *)
(*                                                                         *)
(* Representation.  A text is a sequence of one-character strings; Python  *)
(* None is the text NoneT.  A float score in [0,1] is the integer          *)
(* score * SCALE, exact for texts of at most three characters.  The mean   *)
(* of scores is kept as the exact fraction [num, den].  reviewed_at is an  *)
(* integer clock reading (0 is None).                                      *)
(***************************************************************************)
EXTENDS Integers, Sequences, FiniteSets, TLC

\* ------------------------------------------------------------- bounds
\* number of runs requested against the one chart (the upload's run first)
MaxRuns == 2
\* number of field updates (PATCH requests) made by reviewers
MaxUpdates == 1
\* number of field updates that are let to interleave with one another
MaxRacing == 2
\* size up to which every iteration order of a set of names is enumerated
MaxPermuted == 2
\* calls of convert_data_format and update_item_review_status on a chart
MaxCalls == 2
\* the wall clock stops at this time
MaxClock == 3

\* number of tokens of a response text of the AI provider
MaxTokens == 3

\* ---------------------------------------------------- program constants
\* max_retries of both stage calls
MaxRetries == 3
\* initial_delay of both stage calls, in seconds
InitialDelay == 2

SCALE == 12 * 100
\* SIMILARITY_THRESHOLD = 0.8, CONFIDENCE_THRESHOLD = 0.7
SIMILARITY_THRESHOLD == (8 * SCALE) \div 10
CONFIDENCE_THRESHOLD == (7 * SCALE) \div 10
\* the defaults of the template path, 0.85 and 0.90
TemplateTextDefault == (85 * SCALE) \div 100
TemplateVectorDefault == (90 * SCALE) \div 100

NoneT == <<"None">>
NoneS == "None"
NoneNum == 0 - 1

\* ProcessStatus
PENDING == "PENDING"
PROCESSING == "PROCESSING"
COMPLETED == "COMPLETED"
FAILED == "FAILED"
PARTIAL_SUCCESS == "PARTIAL_SUCCESS"
ProcessStatus == {PENDING, PROCESSING, COMPLETED, FAILED, PARTIAL_SUCCESS}
Terminal == {COMPLETED, FAILED, PARTIAL_SUCCESS}

\* ------------------------------------------------------------- helpers
Max2(a, b) == IF a >= b THEN a ELSE b
Min2(a, b) == IF a <= b THEN a ELSE b

RECURSIVE SeqToSet(_)
SeqToSet(s) == IF s = <<>> THEN {} ELSE {Head(s)} \cup SeqToSet(Tail(s))

RECURSIVE SumSeq(_)
SumSeq(s) == IF s = <<>> THEN 0 ELSE Head(s) + SumSeq(Tail(s))

\* the names of a list of items, in order
ItemNames(items) == [i \in 1..Len(items) |-> items[i].item_name]

\* {item["item_name"]: item.get(key) for item in items}: the last item of a
\* name wins; a name that is absent gives NoneT (dict.get)
RECURSIVE DictGet(_, _, _)
DictGet(items, name, key) ==
    IF items = <<>> THEN NoneT
    ELSE LET last == items[Len(items)]
         IN IF last.item_name = name THEN last[key]
            ELSE DictGet(SubSeq(items, 1, Len(items) - 1), name, key)

\* F(v), the value v being computed once
With(v, F(_)) == CHOOSE y \in {F(x) : x \in {v}} : TRUE

\* ---------------------------------------------------- similarity scorer
\* str.strip(): the blanks at both ends of a text are removed
RECURSIVE StripLeft(_)
StripLeft(t) ==
    IF t # <<>> /\ Head(t) = " " THEN StripLeft(Tail(t)) ELSE t

RECURSIVE StripRight(_)
StripRight(t) ==
    IF t # <<>> /\ t[Len(t)] = " " THEN StripRight(SubSeq(t, 1, Len(t) - 1)) ELSE t

Strip(t) == StripRight(StripLeft(t))

RECURSIVE Levenshtein(_, _)
Levenshtein(s, t) ==
    IF s = <<>> THEN Len(t)
    ELSE IF t = <<>> THEN Len(s)
    ELSE IF Head(s) = Head(t) THEN Levenshtein(Tail(s), Tail(t))
    ELSE 1 + Min2(Levenshtein(Tail(s), Tail(t)),
                  Min2(Levenshtein(Tail(s), t), Levenshtein(s, Tail(t))))

\* length of a longest common subsequence
RECURSIVE LCS(_, _)
LCS(s, t) ==
    IF s = <<>> \/ t = <<>> THEN 0
    ELSE IF Head(s) = Head(t) THEN 1 + LCS(Tail(s), Tail(t))
    ELSE Max2(LCS(Tail(s), t), LCS(s, Tail(t)))

calculate_levenshtein_similarity(raw_text, interpreted_text) ==
    IF raw_text = NoneT \/ interpreted_text = NoneT
    THEN (IF raw_text = NoneT /\ interpreted_text = NoneT THEN SCALE ELSE 0)
    ELSE IF raw_text = <<>> /\ interpreted_text = <<>> THEN SCALE
    ELSE IF raw_text = <<>> \/ interpreted_text = <<>> THEN 0
    ELSE LET r == Strip(raw_text)
             i == Strip(interpreted_text)
             max_len == Max2(Len(r), Len(i))
         IN IF max_len = 0 THEN SCALE
            ELSE SCALE - (SCALE * Levenshtein(r, i)) \div max_len

\* fuzz.ratio / 100: the normalised InDel similarity 2 * LCS / (len + len)
calculate_semantic_similarity(raw_text, interpreted_text) ==
    IF raw_text = NoneT \/ interpreted_text = NoneT
    THEN (IF raw_text = NoneT /\ interpreted_text = NoneT THEN SCALE ELSE 0)
    ELSE LET r == Strip(raw_text)
             i == Strip(interpreted_text)
         IN IF r = <<>> /\ i = <<>> THEN SCALE
            ELSE IF r = <<>> \/ i = <<>> THEN 0
            ELSE (SCALE * 2 * LCS(r, i)) \div (Len(r) + Len(i))

\* a variant: a score equal to its threshold is sent to review
should_review_at_Strict(similarity_score, confidence_score, error_occurred, similarity_threshold, confidence_threshold) ==
    IF error_occurred THEN TRUE
    ELSE IF similarity_score = NoneNum \/ confidence_score = NoneNum THEN TRUE
    ELSE similarity_score <= similarity_threshold
         \/ confidence_score <= confidence_threshold

\* should_review with the two module-level settings as parameters
should_review_at(similarity_score, confidence_score, error_occurred, similarity_threshold, confidence_threshold) ==
    IF error_occurred THEN TRUE
    ELSE IF similarity_score = NoneNum \/ confidence_score = NoneNum THEN TRUE
    ELSE similarity_score < similarity_threshold
         \/ confidence_score < confidence_threshold

should_review(similarity_score, confidence_score, error_occurred) ==
    should_review_at(similarity_score, confidence_score, error_occurred,
                     SIMILARITY_THRESHOLD, CONFIDENCE_THRESHOLD)

\* ------------------------------------------------------ names and texts
\* item names (the Japanese names of the source, romanised)
N_shuso == "shuso"
N_shokaimoto == "shokaimoto"
N_genbyoreki == "genbyoreki"
N_kiooreki == "kiooreki"
N_kazokureki == "kazokureki"
N_seikatsureki == "seikatsureki"
N_naifukuyaku == "naifukuyaku"
N_naifukuyaku_sapuri == "naifukuyaku_sapuri"
N_kanja_kaishaku_model == "kanja_kaishaku_model"
N_shintai_shoken == "shintai_shoken"

\* the hard-coded default field set of the run and of process_extracted_items
DefaultItems ==
    << N_shuso, N_genbyoreki, N_kiooreki, N_kazokureki, N_seikatsureki,
       N_naifukuyaku, N_shintai_shoken >>

\* the items of the mock response of stage 1 when no custom items are given
MockItems ==
    << N_shuso, N_shokaimoto, N_genbyoreki, N_kiooreki, N_kazokureki,
       N_seikatsureki, N_naifukuyaku_sapuri, N_kanja_kaishaku_model,
       N_shintai_shoken >>

\* the mock raw text of an item and the suffix the mock interpretation appends
MockRawText == <<"m">>
MockSuffix == <<"k">>

RawItem(n, t) == [item_name |-> n, raw_text |-> t]
InterpretedItem(n, t) == [item_name |-> n, interpreted_text |-> t]

\* -------------------------------------------------------- the document
\* One field record.  The default path writes the two scores under
\* similarity_score / confidence_score; the template path writes the same
\* two values under these keys too (and under text_/vector_similarity_score).
FieldRecord(name, raw, interp, sim, conf, nr, err) ==
    [item_name |-> name, raw_text |-> raw, interpreted_text |-> interp,
     similarity_score |-> sim, confidence_score |-> conf,
     needs_review |-> nr, review_comment |-> NoneS,
     reviewed_by |-> NoneS, reviewed_at |-> 0, error_occurred |-> err]

\* The JSON document: legacy holds the entries keyed by field name (a dict, in
\* insertion order, the key kept as item_name), has_review_items tells whether
\* the key "review_items" is present.
Document(legacy, has_ri, ri, raw, interp, tid, tname) ==
    [legacy |-> legacy, has_review_items |-> has_ri, review_items |-> ri,
     raw_items |-> raw, interpreted_items |-> interp,
     template_id |-> tid, template_name |-> tname]

\* ------------------------------------- process_extracted_items (default)
\* the keys of the two dicts, as a set
AllKeys(raw_items, interpreted_items) ==
    LET ks == SeqToSet(ItemNames(raw_items)) \cup SeqToSet(ItemNames(interpreted_items))
    IN IF ks = {} THEN SeqToSet(DefaultItems) ELSE ks

\* every name of the model, in one fixed order
AllNames ==
    << N_shuso, N_shokaimoto, N_genbyoreki, N_kiooreki, N_kazokureki, N_seikatsureki,
       N_naifukuyaku, N_naifukuyaku_sapuri, N_kanja_kaishaku_model, N_shintai_shoken >>

Reverse(seq) == [i \in 1..Len(seq) |-> seq[Len(seq) + 1 - i]]

RECURSIVE Perms(_)
Perms(S) ==
    IF S = {} THEN { <<>> }
    ELSE UNION { { <<x>> \o p : p \in Perms(S \ {x}) } : x \in S }

\* the iteration orders of a Python set of names (the order depends on the
\* hash seed of the process): every enumeration of a set of up to MaxPermuted
\* names, one enumeration and its reverse of a larger set
Orders(S) ==
    IF Cardinality(S) <= MaxPermuted
    THEN Perms(S)
    ELSE { SelectSeq(AllNames, LAMBDA n : n \in S),
           Reverse(SelectSeq(AllNames, LAMBDA n : n \in S)) }

\* the item data of one key
ItemData(key, raw_items, interpreted_items) ==
    LET raw_text == DictGet(raw_items, key, "raw_text")
        it0 == DictGet(interpreted_items, key, "interpreted_text")
        error_occurred == raw_text = NoneT \/ it0 = NoneT
        interpreted_text == IF it0 = NoneT /\ raw_text # NoneT THEN raw_text ELSE it0
        similarity_score ==
            IF ~error_occurred
            THEN calculate_levenshtein_similarity(raw_text, interpreted_text) ELSE 0
        confidence_score ==
            IF ~error_occurred
            THEN calculate_semantic_similarity(raw_text, interpreted_text) ELSE 0
    IN FieldRecord(key, raw_text, interpreted_text, similarity_score, confidence_score,
                   should_review(similarity_score, confidence_score, error_occurred),
                   error_occurred)

\* the result of process_extracted_items for one iteration order of all_keys
process_extracted_items(raw_items, interpreted_items, order) ==
    LET Result(review_items) ==
            LET needs_review == \E i \in 1..Len(review_items) : review_items[i].needs_review
                jsonb_data ==
                    Document(review_items, TRUE, review_items,
                             [i \in 1..Len(order) |->
                                 RawItem(order[i], review_items[i].raw_text)],
                             [i \in 1..Len(order) |->
                                 InterpretedItem(order[i], review_items[i].interpreted_text)],
                             NoneS, NoneS)
                average_confidence ==
                    IF review_items # <<>>
                    THEN [num |-> SumSeq([i \in 1..Len(review_items) |->
                                             review_items[i].confidence_score]),
                          den |-> Len(review_items)]
                    ELSE [num |-> SCALE, den |-> 1]
            IN [data |-> jsonb_data, needs_review |-> needs_review,
                overall_confidence |-> average_confidence]
    IN With([i \in 1..Len(order) |-> ItemData(order[i], raw_items, interpreted_items)],
            Result)

\* the status the default run derives from the result (lines 94-111)
DefaultFinalStatus(interpretation_error, jsonb_data) ==
    IF interpretation_error THEN PARTIAL_SUCCESS
    ELSE IF \E i \in 1..Len(jsonb_data.legacy) : jsonb_data.legacy[i].error_occurred
         THEN PARTIAL_SUCCESS
         ELSE COMPLETED

DefaultFinalNeedsReview(interpretation_error, needs_review) ==
    IF interpretation_error THEN TRUE ELSE needs_review

DefaultFinalMessage(interpretation_error, jsonb_data) ==
    IF interpretation_error THEN "Text interpretation failed"
    ELSE IF \E i \in 1..Len(jsonb_data.legacy) : jsonb_data.legacy[i].error_occurred
         THEN "Some items failed to process correctly"
         ELSE NoneS

\* ------------------------------------ process_chart_with_template (scoring)
TemplateItem(name, enabled, tt, vt, ct) ==
    [name |-> name, enabled |-> enabled, text_similarity_threshold |-> tt,
     vector_similarity_threshold |-> vt, confidence_threshold |-> ct]

\* the one template of the model: two enabled items with the column defaults
\* 0.8 / 0.7 / 0.7 of ExtractionTemplateItem
TheTemplate ==
    [id |-> "T1", name |-> "template1",
     items |-> << TemplateItem(N_shuso, TRUE, SIMILARITY_THRESHOLD,
                               CONFIDENCE_THRESHOLD, CONFIDENCE_THRESHOLD),
                  TemplateItem(N_genbyoreki, TRUE, SIMILARITY_THRESHOLD,
                               CONFIDENCE_THRESHOLD, CONFIDENCE_THRESHOLD) >>]

\* next((item for item in template_items if item['name'] == item_name), None):
\* the index of the first item of that name, 0 for None
RECURSIVE FirstIndex(_, _, _)
FirstIndex(items, name, i) ==
    IF i > Len(items) THEN 0
    ELSE IF items[i].name = name THEN i
    ELSE FirstIndex(items, name, i + 1)

\* "not x" of a threshold: None and 0.0 are falsy
Falsy(x) == x = NoneNum \/ x = 0

TextThreshold(template_items, item_name) ==
    LET k == FirstIndex(template_items, item_name, 1)
    IN IF k = 0 THEN TemplateTextDefault
       ELSE IF Falsy(template_items[k].text_similarity_threshold)
            THEN template_items[k].confidence_threshold
            ELSE template_items[k].text_similarity_threshold

VectorThreshold(template_items, item_name) ==
    LET k == FirstIndex(template_items, item_name, 1)
    IN IF k = 0 THEN TemplateVectorDefault
       ELSE IF Falsy(template_items[k].vector_similarity_threshold)
            THEN template_items[k].confidence_threshold
            ELSE template_items[k].vector_similarity_threshold

\* the review record of raw item i (lines 196-259)
TemplateRecord(i, raw_items, interpreted_items, template_items) ==
    LET item_name == raw_items[i].item_name
        raw_text == raw_items[i].raw_text
        interpreted_text == interpreted_items[i].interpreted_text
        error_occurred == raw_text = NoneT \/ interpreted_text = NoneT
        text_similarity_score ==
            IF ~error_occurred
            THEN calculate_levenshtein_similarity(raw_text, interpreted_text) ELSE 0
        vector_similarity_score ==
            IF ~error_occurred
            THEN calculate_semantic_similarity(raw_text, interpreted_text) ELSE 0
        item_needs_review ==
            text_similarity_score < TextThreshold(template_items, item_name)
            \/ vector_similarity_score < VectorThreshold(template_items, item_name)
    IN FieldRecord(item_name, raw_text, interpreted_text, text_similarity_score,
                   vector_similarity_score, item_needs_review, error_occurred)

\* the loop raises when interpreted_items[i] does not exist (IndexError) or a
\* score is compared with a threshold that is None (TypeError)
TemplateRaises(raw_items, interpreted_items, template_items) ==
    \/ Len(interpreted_items) < Len(raw_items)
    \/ \E i \in 1..Len(raw_items) :
          LET n == raw_items[i].item_name
              rec == TemplateRecord(i, raw_items, interpreted_items, template_items)
          IN \/ TextThreshold(template_items, n) = NoneNum
             \/ /\ ~(rec.similarity_score < TextThreshold(template_items, n))
                /\ VectorThreshold(template_items, n) = NoneNum

TemplateResult(raw_items, interpreted_items, template) ==
    LET template_items == SelectSeq(template.items, LAMBDA it : it.enabled)
        Result(review_items) ==
            LET needs_review == \E i \in 1..Len(review_items) : review_items[i].needs_review
                total_confidence ==
                    SumSeq([i \in 1..Len(review_items) |->
                               review_items[i].similarity_score
                                   + review_items[i].confidence_score])
                average_confidence ==
                    IF raw_items # <<>>
                    THEN [num |-> total_confidence, den |-> 2 * Len(raw_items)]
                    ELSE [num |-> 0, den |-> 1]
            IN [data |-> Document(<<>>, TRUE, review_items, raw_items, interpreted_items,
                                  template.id, template.name),
                needs_review |-> needs_review,
                overall_confidence |-> average_confidence]
    IN With([i \in 1..Len(raw_items) |->
                TemplateRecord(i, raw_items, interpreted_items, template_items)],
            Result)

\* ------------------------------------------------ reading the document
\* get_all_items_unified: the review_items records that carry a name, then the
\* legacy entries whose name is not among them
get_all_items_unified(doc) ==
    LET from_array == IF doc.has_review_items
                      THEN SelectSeq(doc.review_items, LAMBDA it : it.item_name # NoneS)
                      ELSE <<>>
        existing_names == SeqToSet(ItemNames(from_array))
    IN from_array \o SelectSeq(doc.legacy, LAMBDA it : it.item_name \notin existing_names)

\* find_item_by_name: the index of the first item of that name, 0 for None
RECURSIVE find_item_by_name(_, _, _)
find_item_by_name(items, item_name, i) ==
    IF i > Len(items) THEN 0
    ELSE IF items[i].item_name = item_name THEN i
    ELSE find_item_by_name(items, item_name, i + 1)

\* get_review_items: the legacy entries that are not in the array first, then
\* (when there are none and all items are asked for) the names of raw_items /
\* interpreted_items that are not in the array, then the array's records
get_review_items(doc, get_all_items) ==
    LET from_array ==
            IF doc.has_review_items
            THEN SelectSeq(doc.review_items,
                           LAMBDA it : get_all_items \/ it.needs_review)
            ELSE <<>>
        items_in_array ==
            {n \in SeqToSet(ItemNames(from_array)) : n # NoneS}
        from_legacy ==
            SelectSeq(doc.legacy,
                      LAMBDA it : /\ it.item_name \notin items_in_array
                                  /\ (get_all_items \/ it.needs_review))
        item_names ==
            (SeqToSet(ItemNames(doc.raw_items)) \cup SeqToSet(ItemNames(doc.interpreted_items)))
                \ items_in_array
        restored_order == SelectSeq(AllNames, LAMBDA n : n \in item_names)
        restored ==
            [i \in 1..Len(restored_order) |->
                FieldRecord(restored_order[i],
                            DictGet(doc.raw_items, restored_order[i], "raw_text"),
                            DictGet(doc.interpreted_items, restored_order[i], "interpreted_text"),
                            SCALE, (8 * SCALE) \div 10, FALSE, FALSE)]
    IN (IF from_legacy = <<>> /\ get_all_items THEN restored ELSE from_legacy)
           \o from_array

\* ------------------------------------------------- writing the document
\* a patch that keeps the stored interpreted_text whatever the request gives
PatchRecord_KeepText(rec, interpreted_text, review_comment, reviewed_by, now) ==
    [rec EXCEPT !.review_comment = IF review_comment # NoneS THEN review_comment ELSE @,
                !.reviewed_by = reviewed_by,
                !.reviewed_at = now,
                !.needs_review = FALSE]

\* the patch of one record by update_item (review.py lines 182-190, 205-213)
PatchRecord(rec, interpreted_text, review_comment, reviewed_by, now) ==
    [rec EXCEPT
        !.interpreted_text = IF interpreted_text # NoneT THEN interpreted_text ELSE @,
        !.review_comment = IF review_comment # NoneS THEN review_comment ELSE @,
        !.reviewed_by = reviewed_by,
        !.reviewed_at = now,
        !.needs_review = FALSE]

\* index of the first record of that name in a list of records, 0 when absent
RECURSIVE IndexOfName(_, _, _)
IndexOfName(items, item_name, i) ==
    IF i > Len(items) THEN 0
    ELSE IF items[i].item_name = item_name THEN i
    ELSE IndexOfName(items, item_name, i + 1)

\* an update that patches every record of the array, whatever its name
ApplyUpdate_EveryRecord(doc, item_name, interpreted_text, review_comment, reviewed_by, now) ==
    [doc EXCEPT !.review_items =
        [i \in 1..Len(doc.review_items) |->
            PatchRecord(doc.review_items[i], interpreted_text, review_comment,
                        reviewed_by, now)]]

\* update_item, steps 1 and 2: the array record if there is one, else the
\* legacy entry, which is then mirrored into review_items
ApplyUpdate(doc, item_name, interpreted_text, review_comment, reviewed_by, now) ==
    LET ai == IF doc.has_review_items THEN IndexOfName(doc.review_items, item_name, 1) ELSE 0
        li == IndexOfName(doc.legacy, item_name, 1)
    IN IF ai # 0
       THEN [doc EXCEPT !.review_items[ai] =
                PatchRecord(@, interpreted_text, review_comment, reviewed_by, now)]
       ELSE IF li # 0
       THEN LET item_data == PatchRecord(doc.legacy[li], interpreted_text,
                                         review_comment, reviewed_by, now)
            IN [doc EXCEPT !.legacy[li] = item_data,
                           !.has_review_items = TRUE,
                           !.review_items = Append(@, item_data)]
       ELSE doc

UpdateFinds(doc, item_name) ==
    \/ doc.has_review_items /\ IndexOfName(doc.review_items, item_name, 1) # 0
    \/ IndexOfName(doc.legacy, item_name, 1) # 0

\* a choice of the latest item that keeps the last of the latest reviewed_at
RECURSIVE LatestItem_Last(_, _, _)
LatestItem_Last(items, i, best) ==
    IF i > Len(items) THEN best
    ELSE IF items[i].reviewed_at # 0
            /\ (best = 0 \/ items[i].reviewed_at >= items[best].reviewed_at)
         THEN LatestItem_Last(items, i + 1, i)
         ELSE LatestItem_Last(items, i + 1, best)

\* update_chart_review_status_after_item_update: (needs_review, reviewed_by)
\* from all review items; max() keeps the first of the latest reviewed_at
RECURSIVE LatestItem(_, _, _)
LatestItem(items, i, best) ==
    IF i > Len(items) THEN best
    ELSE IF items[i].reviewed_at # 0
            /\ (best = 0 \/ items[i].reviewed_at > items[best].reviewed_at)
         THEN LatestItem(items, i + 1, i)
         ELSE LatestItem(items, i + 1, best)

RecomputeAggregate(doc) ==
    LET review_items == get_review_items(doc, TRUE)
        needs_review == \E i \in 1..Len(review_items) : review_items[i].needs_review
        latest == LatestItem(review_items, 1, 0)
    IN [needs_review |-> needs_review,
        reviewed_by |-> IF ~needs_review /\ review_items # <<>> /\ latest # 0
                        THEN review_items[latest].reviewed_by ELSE NoneS]

\* update_item_review_status on the document: with a review_items array the
\* first record of that name of the array, without one the legacy entry; the
\* reviewer defaults to "system"; found is FALSE for "return None, False"
update_item_review_status(doc, item_name, interpreted_text, review_comment, reviewed_by, now) ==
    LET is_custom_extraction == doc.has_review_items
        item_index == IndexOfName(doc.review_items, item_name, 1)
        li == IndexOfName(doc.legacy, item_name, 1)
        by == IF reviewed_by # NoneS THEN reviewed_by ELSE "system"
    IN IF is_custom_extraction
       THEN IF item_index = 0
            THEN [found |-> FALSE, data |-> doc, still_needs_review |-> FALSE]
            ELSE LET updated ==
                         [doc EXCEPT !.review_items[item_index] =
                             PatchRecord(@, interpreted_text, review_comment, by, now)]
                 IN [found |-> TRUE, data |-> updated,
                     still_needs_review |->
                         \E i \in 1..Len(updated.review_items) :
                            updated.review_items[i].needs_review]
       ELSE IF li = 0
            THEN [found |-> FALSE, data |-> doc, still_needs_review |-> FALSE]
            ELSE LET updated ==
                         [doc EXCEPT !.legacy[li] =
                             PatchRecord(@, interpreted_text, review_comment, by, now)]
                 IN [found |-> TRUE, data |-> updated,
                     still_needs_review |->
                         \E i \in 1..Len(updated.legacy) : updated.legacy[i].needs_review]

\* a conversion that leaves every document as it is
convert_Skip(doc) == doc

\* a conversion that also turns the legacy layout into the array layout
convert_Swap(doc) ==
    IF doc.has_review_items
    THEN Document(doc.review_items, FALSE, <<>>, doc.raw_items, doc.interpreted_items,
                  doc.template_id, doc.template_name)
    ELSE Document(<<>>, TRUE, doc.legacy, doc.raw_items, doc.interpreted_items,
                  doc.template_id, doc.template_name)

\* convert_to_standard_format on the document: a document without a
\* review_items array is left as it is; else every named record of the array
\* becomes the legacy entry of its name (the last record of a name wins, at
\* the place of the first), the other keys are kept and review_items is gone
convert_to_standard_format(doc) ==
    IF ~doc.has_review_items THEN doc
    ELSE LET named == SelectSeq(doc.review_items, LAMBDA it : it.item_name # NoneS)
             IsFirst(i) == \A j \in 1..(i - 1) : named[j].item_name # named[i].item_name
             LastOf(n) == CHOOSE i \in 1..Len(named) :
                             /\ named[i].item_name = n
                             /\ \A j \in (i + 1)..Len(named) : named[j].item_name # n
             firsts == SelectSeq([i \in 1..Len(named) |-> i], IsFirst)
             standard_format == [k \in 1..Len(firsts) |->
                                    named[LastOf(named[firsts[k]].item_name)]]
             names == SeqToSet(ItemNames(standard_format))
         IN Document(standard_format
                         \o SelectSeq(doc.legacy, LAMBDA it : it.item_name \notin names),
                     FALSE, <<>>, doc.raw_items, doc.interpreted_items,
                     doc.template_id, doc.template_name)

\* ------------------------------------------------------------ the chart
update_chart_status(c, status, error_message) ==
    [c EXCEPT !.status = status,
              !.error_message = IF error_message # NoneS THEN error_message ELSE @]

NoConfidence == [num |-> NoneNum, den |-> 1]

\* a variant: the reviewer is stamped and the flag of the chart is left as it is
update_chart_review_status_KeepFlag(c, needs_review, overall_confidence_score, reviewed_by, now) ==
    [c EXCEPT !.reviewed_by = IF reviewed_by # NoneS /\ ~needs_review THEN reviewed_by ELSE @,
              !.reviewed_at = IF reviewed_by # NoneS /\ ~needs_review THEN now ELSE @]

update_chart_review_status(c, needs_review, overall_confidence_score, reviewed_by, now) ==
    [c EXCEPT !.needs_review = needs_review,
              !.overall_confidence_score =
                  IF overall_confidence_score # NoConfidence
                  THEN overall_confidence_score ELSE @,
              !.reviewed_by = IF reviewed_by # NoneS /\ ~needs_review THEN reviewed_by ELSE @,
              !.reviewed_at = IF reviewed_by # NoneS /\ ~needs_review THEN now ELSE @]

\* ------------------------------------------------------- stage outputs
\* what the AI provider may answer to stage 1 (a JSON list of raw items): the
\* empty list, one item, two items, a null raw_text, the same name twice
RawOutputs ==
    { <<>>,
      << RawItem(N_shuso, <<"a", "b">>) >>,
      << RawItem(N_shuso, <<"a", "b">>), RawItem(N_genbyoreki, <<"a">>) >>,
      << RawItem(N_shuso, NoneT) >>,
      << RawItem(N_shuso, <<"a", "b">>), RawItem(N_shuso, <<"a">>) >> }

\* what it may answer to stage 2: nothing, the same text, another text, a null
\* text, one name more than stage 1 gave, another name than stage 1 gave
InterpretedOutputs ==
    { <<>>,
      << InterpretedItem(N_shuso, <<"a", "b">>) >>,
      << InterpretedItem(N_shuso, <<"a", "c">>) >>,
      << InterpretedItem(N_shuso, NoneT) >>,
      << InterpretedItem(N_shuso, <<"a", "b">>), InterpretedItem(N_genbyoreki, <<"a">>) >>,
      << InterpretedItem(N_genbyoreki, <<"a">>) >> }

\* the answers of the runs that are let to interleave
RawOutputsSmall == { << RawItem(N_shuso, <<"a", "b">>) >> }
InterpretedOutputsSmall ==
    { << InterpretedItem(N_shuso, <<"a", "b">>) >>,
      << InterpretedItem(N_shuso, <<"a", "c">>) >> }

\* the mock answers (neither GEMINI_API_KEY nor GEMINI_PROJECT_ID is set)
MockRaw(custom_items) ==
    LET names == IF custom_items # <<>> THEN custom_items ELSE MockItems
    IN [i \in 1..Len(names) |-> RawItem(names[i], MockRawText)]

MockInterpreted(raw_items) ==
    [i \in 1..Len(raw_items) |->
        InterpretedItem(raw_items[i].item_name, raw_items[i].raw_text \o MockSuffix)]

\* settings: which of GEMINI_API_KEY / GEMINI_PROJECT_ID is set
Configs == {"api_key", "project_id", "mock"}

\* the reviewers' requests
UpdateNames == {N_shuso, N_genbyoreki}
UpdateTexts == {NoneT, <<"z">>}
UpdateComments == {NoneS, "ok"}
Reviewers == {"alice"}
\* the reviewed_by of a call of update_item_review_status (optional)
ServiceReviewers == {NoneS, "bob"}
\* its interpreted_text and review_comment
ServiceTexts == {<<"y">>}
ServiceComments == {NoneS}

\* ---------------------------------------------------------------- state
VARIABLES
    cfg,     \* the configuration of the AI provider
    chart,   \* the row of the chart in table charts
    rows,    \* the rows of table extracted_data of the chart: row id -> data
    run,     \* the runs: run[r] is the state of the r-th background task
    upd,     \* the field updates: upd[u] is the state of the u-th PATCH request
    clock,   \* the wall clock
    call,    \* the last call of convert_data_format, of update_item_review_status
             \* or of update_chart_review_status_after_item_update on its own
    status_cache,  \* routers/charts.py status_cache: chart id -> cached status
    result_cache,  \* routers/charts.py result_cache: chart id -> cached response
    reply,   \* the reply to the last GET request
    stage,   \* a call of extract_raw_data_from_image or interpret_extracted_data,
             \* attempt by attempt
    probe    \* a call of a scoring function: its arguments and what it returned

vars ==
    <<cfg, chart, rows, run, upd, clock, call, status_cache, result_cache, reply, stage,
      probe>>

\* what the requests that do not read the caches leave alone
views == <<status_cache, result_cache, reply, stage, probe>>

\* the chart of the model and another chart of the same server
ThisChart == "c1"
OtherChart == "c2"
ChartIds == {ThisChart, OtherChart}

\* no cached response, no reply
NoResponse ==
    [status |-> NoneS, error_message |-> NoneS, message |-> NoneS,
     extracted_items |-> <<>>, needs_review |-> FALSE, reviewed_by |-> NoneS]
NoReply == [op |-> "none", chart_id |-> NoneS, cached |-> FALSE, response |-> NoResponse]

Runs == 1..MaxRuns
Updates == 1..MaxUpdates
\* the updates that interleave with one another, and all the updates
Racers == 1..MaxRacing
UpdIds == Updates \cup Racers

EmptyDoc == Document(<<>>, FALSE, <<>>, <<>>, <<>>, NoneS, NoneS)
NoResult == [data |-> EmptyDoc, needs_review |-> FALSE, overall_confidence |-> NoConfidence]

\* a background task that has not been requested
NoRun ==
    [kind |-> "none", pc |-> "none", image |-> "unset", retries |-> 0,
     stage1_output |-> <<>>, raw_items |-> <<>>, interpreted_items |-> <<>>,
     s1_calls |-> 0, s1_returned |-> FALSE, s2_calls |-> 0, s2_returned |-> FALSE,
     interpretation_error |-> FALSE, result |-> NoResult,
     status |-> NoneS, message |-> NoneS, existing |-> 0,
     written |-> <<>>, inserted |-> FALSE]

NoUpdate ==
    [pc |-> "none", item_name |-> NoneS, interpreted_text |-> NoneT,
     review_comment |-> NoneS, by |-> NoneS, row |-> 0, doc |-> EmptyDoc,
     needs_review |-> FALSE, reviewed_by |-> NoneS, outcome |-> NoneS]

\* no call yet: the operation, how many calls there were, the row and the
\* document it found, the time it read and what it returned
NoCall ==
    [op |-> "none", n |-> 0, row |-> 0, before |-> EmptyDoc, now |-> 0,
     item_name |-> NoneS, returned |-> FALSE, outcome |-> NoneS]

\* an exception: the attempt that raised it and what it is
NoError == [attempt |-> 0, kind |-> NoneS]

\* no stage call yet: its function, where it is, the retry counter, the
\* attempts made, the waits slept, the response of the last attempt, the
\* exception caught last, the exception raised and the list returned
NoStage ==
    [fn |-> NoneS, pc |-> "idle", retries |-> 0, attempts |-> 0, waits |-> <<>>,
     response |-> NoneT, error |-> NoError, raised |-> NoError, returned |-> NoneS]

\* no call of a scoring function: the function, its arguments, whether it
\* was applied and what it returned
NoProbe ==
    [fn |-> NoneS, applied |-> FALSE, similarity_score |-> NoneNum,
     confidence_score |-> NoneNum, error_occurred |-> FALSE,
     similarity_threshold |-> SIMILARITY_THRESHOLD,
     confidence_threshold |-> CONFIDENCE_THRESHOLD, raw_text |-> NoneT,
     interpreted_text |-> NoneT, template_items |-> <<>>, result |-> NoneS]

\* create_chart_record: the chart of an upload
NewChart(template_id) ==
    [status |-> PENDING, error_message |-> NoneS, overall_confidence_score |-> NoConfidence,
     needs_review |-> FALSE, reviewed_by |-> NoneS, reviewed_at |-> 0,
     template_id |-> template_id]

\* the state after an upload: upload_chart queues a default run,
\* upload_chart_with_template a template run
ProgramInit(configs) ==
    /\ cfg \in configs
    /\ \E kind \in {"default", "template"} :
          /\ chart = NewChart(IF kind = "template" THEN TheTemplate.id ELSE NoneS)
          /\ run = [r \in Runs |->
                       IF r = 1 THEN [NoRun EXCEPT !.kind = kind, !.pc = "queued"] ELSE NoRun]
    /\ rows = << >>
    /\ upd = [u \in UpdIds |-> NoUpdate]
    /\ clock = 0
    /\ call = NoCall
    /\ status_cache = [c \in ChartIds |-> NoneS]
    /\ result_cache = [c \in ChartIds |-> NoResponse]
    /\ reply = NoReply
    /\ stage = NoStage

InitWith(configs) == ProgramInit(configs) /\ probe = NoProbe

Init == InitWith(Configs)

\* an operation is under way: a started run or update that has not ended
RunActive(r) == run[r].pc \notin {"none", "queued", "done"}
UpdActive(u) == upd[u].pc \notin {"none", "done"}
Quiet == (\A r \in Runs : ~RunActive(r)) /\ (\A u \in Updates : ~UpdActive(u))

\* a variant: the run does not return after the write of a status
WriteStatus_NoReturn(r, rr, status, error_message) ==
    /\ chart' = update_chart_status(chart, status, error_message)
    /\ run' = [run EXCEPT ![r] = [rr EXCEPT !.written = Append(@, status),
                                            !.status = status, !.message = error_message]]

\* the run writes a status to the chart and returns; rr is its local state
WriteStatus(r, rr, status, error_message) ==
    /\ chart' = update_chart_status(chart, status, error_message)
    /\ run' = [run EXCEPT ![r] = [rr EXCEPT !.written = Append(@, status), !.pc = "done",
                                            !.status = status, !.message = error_message,
                                            !.retries = 0]]

\* the template runs are coroutines of one event loop: from the return of the
\* last await (stage 2) to its end a run is not interleaved with another
\* template run; the default run has a thread of its own
SyncPcs == {"persist", "insert", "aggregate", "status"}
EventLoopFree(r) ==
    run[r].kind = "template" =>
        \A r2 \in Runs \ {r} : run[r2].kind = "template" => run[r2].pc \notin SyncPcs

\* ------------------------------------------------------------ the runs
\* a request that queues the run and leaves the caches as they are
RequestRun_KeepCache(r, exclusive) ==
    /\ r > 1
    /\ run[r].pc = "none"
    /\ run[r - 1].pc # "none"
    /\ exclusive => Quiet
    /\ run' = [run EXCEPT ![r] = [NoRun EXCEPT !.kind = "template", !.pc = "queued"]]
    /\ UNCHANGED <<cfg, views, call, chart, rows, upd, clock>>

\* a reprocess / process_with_template request deletes the chart's entries of
\* the two caches and queues a template run
RequestRun(r, exclusive) ==
    /\ r > 1
    /\ run[r].pc = "none"
    /\ run[r - 1].pc # "none"
    /\ exclusive => Quiet
    /\ status_cache' = [status_cache EXCEPT ![ThisChart] = NoneS]
    /\ result_cache' = [result_cache EXCEPT ![ThisChart] = NoResponse]
    /\ run' = [run EXCEPT ![r] = [NoRun EXCEPT !.kind = "template", !.pc = "queued"]]
    /\ UNCHANGED <<cfg, reply, stage, probe, call, chart, rows, upd, clock>>

\* the first step of the task: the default run writes PROCESSING; the template
\* run raises ValueError when the template is missing or has no enabled item,
\* and else writes template_id and PROCESSING
StartRun(r, exclusive) ==
    /\ run[r].pc = "queued"
    /\ exclusive => Quiet
    /\ EventLoopFree(r)
    /\ \/ /\ run[r].kind = "default"
          /\ chart' = update_chart_status(chart, PROCESSING, NoneS)
          /\ run' = [run EXCEPT ![r].written = Append(@, PROCESSING), ![r].pc = "fetch"]
       \/ /\ run[r].kind = "template"
          /\ \E template_found \in BOOLEAN :
                IF template_found
                THEN /\ chart' = [chart EXCEPT !.template_id = TheTemplate.id,
                                               !.status = PROCESSING]
                     /\ run' = [run EXCEPT ![r].written = Append(@, PROCESSING),
                                           ![r].pc = "fetch"]
                ELSE /\ run' = [run EXCEPT ![r].pc = "done", ![r].message = "ValueError"]
                     /\ UNCHANGED chart
    /\ UNCHANGED <<cfg, views, call, rows, upd, clock>>

\* download_file_from_gcs returned None: the default run fails and returns,
\* the template run goes on with image_data = None
OnFetchNone(r, rr) ==
    IF rr.kind = "default"
    THEN WriteStatus(r, rr, FAILED, "Failed to download image")
    ELSE /\ run' = [run EXCEPT ![r] = [rr EXCEPT !.pc = "stage1", !.retries = 0]]
         /\ UNCHANGED chart

Fetch(r) ==
    /\ run[r].pc = "fetch"
    /\ \E image \in {"bytes", "none"} :
          LET rr == [run[r] EXCEPT !.image = image]
          IN IF image = "none"
             THEN OnFetchNone(r, rr)
             ELSE /\ run' = [run EXCEPT ![r] = [rr EXCEPT !.pc = "stage1", !.retries = 0]]
                  /\ UNCHANGED chart
    /\ UNCHANGED <<cfg, views, call, rows, upd, clock>>

\* the raw items the run goes on with: lines 55-66 replace an empty list
SubstituteDefault(raw_items) ==
    IF Len(raw_items) = 0
    THEN [i \in 1..Len(DefaultItems) |-> RawItem(DefaultItems[i], <<>>)]
    ELSE raw_items

\* stage 1 returned raw_items: the default run fails on a falsy list
OnStage1Return(r, rr, raw_items) ==
    LET r1 == [rr EXCEPT !.s1_returned = TRUE, !.stage1_output = raw_items,
                         !.raw_items = raw_items]
    IN IF rr.kind = "default" /\ raw_items = <<>>
       THEN WriteStatus(r, r1, FAILED, "Failed to extract raw data from image")
       ELSE /\ run' = [run EXCEPT ![r] =
                         [r1 EXCEPT !.pc = "stage2", !.retries = 0,
                                    !.raw_items = IF rr.kind = "default"
                                                  THEN SubstituteDefault(raw_items)
                                                  ELSE raw_items]]
            /\ UNCHANGED chart

\* a variant: stage 1 raised and the run goes on to stage 2 without raw items
OnStage1Raise_Continue(r, rr, message) ==
    /\ run' = [run EXCEPT ![r] = [rr EXCEPT !.pc = "stage2", !.retries = 0]]
    /\ UNCHANGED chart

\* stage 1 raised: both runs fail with the message of the exception
OnStage1Raise(r, rr, message) ==
    WriteStatus(r, rr, FAILED, message)

\* a variant: the except clause leaves the retry counter as it is
NextRetries_Stuck(retries) == retries

\* retries += 1 of the except clause
NextRetries(retries) == retries + 1

\* a variant: the loop goes on after every failed attempt
RetryAgain_Always(retries) == TRUE

\* the loop goes on after a failed attempt
RetryAgain(retries) == retries <= MaxRetries

\* one attempt of extract_raw_data_from_image failed
Stage1Fail(r, rr) ==
    LET retries == NextRetries(rr.retries)
    IN IF RetryAgain(retries)
       THEN /\ run' = [run EXCEPT ![r] = [rr EXCEPT !.retries = retries]]
            /\ UNCHANGED chart
       ELSE OnStage1Raise(r, [rr EXCEPT !.retries = retries], "stage 1 error")

\* custom_items: the names of the template's enabled items
CustomItems(rr) ==
    LET template_items == SelectSeq(TheTemplate.items, LAMBDA it : it.enabled)
    IN IF rr.kind = "template"
       THEN [i \in 1..Len(template_items) |-> template_items[i].name]
       ELSE <<>>

\* one attempt of extract_raw_data_from_image
Stage1Attempt(r, raws) ==
    /\ run[r].pc = "stage1"
    /\ LET rr == [run[r] EXCEPT !.s1_calls = 1]
       IN \/ /\ cfg = "api_key"
             /\ rr.image = "bytes"
             /\ \E raw_items \in raws : OnStage1Return(r, rr, raw_items)
          \/ /\ cfg = "api_key"
             /\ Stage1Fail(r, rr)
          \/ /\ cfg = "project_id"
             /\ OnStage1Raise(r, rr, "Unexpected execution flow")
          \/ /\ cfg = "mock"
             /\ OnStage1Return(r, rr, MockRaw(CustomItems(rr)))
    /\ UNCHANGED <<cfg, views, call, rows, upd, clock>>

\* the result of the run is computed and the run goes to persist it
Compute(r, rr) ==
    IF rr.kind = "default"
    THEN \E order \in Orders(AllKeys(rr.raw_items, rr.interpreted_items)) :
         \E res \in {process_extracted_items(rr.raw_items, rr.interpreted_items, order)} :
            /\ run' = [run EXCEPT ![r] =
                 [rr EXCEPT
                    !.pc = "persist", !.retries = 0,
                    !.result = [res EXCEPT !.needs_review =
                        DefaultFinalNeedsReview(rr.interpretation_error, @)],
                    !.status = DefaultFinalStatus(rr.interpretation_error, res.data),
                    !.message = DefaultFinalMessage(rr.interpretation_error, res.data)]]
            /\ UNCHANGED chart
    ELSE IF TemplateRaises(rr.raw_items, rr.interpreted_items,
                           SelectSeq(TheTemplate.items, LAMBDA it : it.enabled))
         THEN WriteStatus(r, rr, FAILED, "scoring error")
         ELSE \E res \in {TemplateResult(rr.raw_items, rr.interpreted_items, TheTemplate)} :
                 /\ run' = [run EXCEPT ![r] =
                       [rr EXCEPT !.pc = "persist", !.retries = 0,
                                  !.result = res, !.status = COMPLETED]]
                 /\ UNCHANGED chart

OnStage2Return(r, rr, interpreted_items) ==
    Compute(r, [rr EXCEPT !.s2_returned = TRUE, !.interpreted_items = interpreted_items])

\* stage 2 raised: the default run goes on without interpreted items, the
\* template run fails
OnStage2Raise(r, rr, message) ==
    IF rr.kind = "default"
    THEN Compute(r, [rr EXCEPT !.interpretation_error = TRUE, !.interpreted_items = <<>>])
    ELSE WriteStatus(r, rr, FAILED, message)

Stage2Fail(r, rr) ==
    LET retries == NextRetries(rr.retries)
    IN IF RetryAgain(retries)
       THEN /\ run' = [run EXCEPT ![r] = [rr EXCEPT !.retries = retries]]
            /\ UNCHANGED chart
       ELSE OnStage2Raise(r, [rr EXCEPT !.retries = retries], "stage 2 error")

\* one attempt of interpret_extracted_data
Stage2Attempt(r, interps) ==
    /\ run[r].pc = "stage2"
    /\ LET rr == [run[r] EXCEPT !.s2_calls = 1]
       IN \/ /\ cfg = "api_key"
             /\ \E interpreted_items \in interps : OnStage2Return(r, rr, interpreted_items)
          \/ /\ cfg = "api_key"
             /\ Stage2Fail(r, rr)
          \/ /\ cfg # "api_key"
             /\ OnStage2Return(r, rr, MockInterpreted(rr.raw_items))
    /\ UNCHANGED <<cfg, views, call, rows, upd, clock>>

\* create_extracted_data_jsonb, the query: .first() of the chart's rows
PersistRead(r) ==
    /\ run[r].pc = "persist"
    /\ \/ /\ DOMAIN rows = {}
          /\ run' = [run EXCEPT ![r].existing = 0, ![r].pc = "insert"]
       \/ \E id \in DOMAIN rows :
             run' = [run EXCEPT ![r].existing = id, ![r].pc = "insert"]
    /\ UNCHANGED <<cfg, views, call, chart, rows, upd, clock>>

\* the rows after the delete of the row read and the insert of the new one
ReplaceRow(rs, existing, id, data) ==
    [k \in (DOMAIN rs \ {existing}) \cup {id} |-> IF k = id THEN data ELSE rs[k]]

\* create_extracted_data_jsonb, delete + insert + commit
PersistInsert(r) ==
    /\ run[r].pc = "insert"
    /\ rows' = ReplaceRow(rows, run[r].existing, r, run[r].result.data)
    /\ run' = [run EXCEPT ![r].inserted = TRUE, ![r].existing = 0, ![r].pc = "aggregate"]
    /\ UNCHANGED <<cfg, views, call, chart, upd, clock>>

\* create_extracted_data_jsonb, update_chart_review_status and its commit
PersistAggregate(r) ==
    /\ run[r].pc = "aggregate"
    /\ chart' = update_chart_review_status(chart, run[r].result.needs_review,
                                           run[r].result.overall_confidence, NoneS, clock)
    /\ run' = [run EXCEPT ![r].pc = "status"]
    /\ UNCHANGED <<cfg, views, call, rows, upd, clock>>

\* the last write of the run
FinalStatus(r) ==
    /\ run[r].pc = "status"
    /\ IF run[r].kind = "default"
       THEN WriteStatus(r, run[r], run[r].status, run[r].message)
       ELSE /\ chart' = [chart EXCEPT
                            !.status = COMPLETED,
                            !.overall_confidence_score = run[r].result.overall_confidence,
                            !.needs_review = run[r].result.needs_review]
            /\ run' = [run EXCEPT ![r].written = Append(@, COMPLETED), ![r].pc = "done"]
    /\ UNCHANGED <<cfg, views, call, rows, upd, clock>>

RunStep(r, raws, interps) ==
    /\ EventLoopFree(r)
    /\ \/ Fetch(r)
       \/ Stage1Attempt(r, raws)
       \/ Stage2Attempt(r, interps)
       \/ PersistRead(r)
       \/ PersistInsert(r)
       \/ PersistAggregate(r)
       \/ FinalStatus(r)

\* ------------------------------------------------------- the field updates
\* update_item up to the patch of the session's copy of the document
UpdRead(u, exclusive) ==
    /\ upd[u].pc = "none"
    /\ exclusive => Quiet
    /\ \E item_name \in UpdateNames, interpreted_text \in UpdateTexts,
          review_comment \in UpdateComments, reviewed_by \in Reviewers :
          LET request == [upd[u] EXCEPT !.item_name = item_name,
                                        !.interpreted_text = interpreted_text,
                                        !.review_comment = review_comment,
                                        !.by = reviewed_by]
          IN \/ /\ DOMAIN rows = {}
                /\ upd' = [upd EXCEPT ![u] = [request EXCEPT !.pc = "done", !.outcome = "404"]]
                /\ UNCHANGED clock
             \/ \E id \in DOMAIN rows :
                   LET all_items == get_all_items_unified(rows[id])
                   IN IF find_item_by_name(all_items, item_name, 1) = 0
                         \/ ~UpdateFinds(rows[id], item_name)
                      THEN /\ upd' = [upd EXCEPT ![u] =
                                  [request EXCEPT
                                      !.pc = "done", !.row = id,
                                      !.outcome = IF find_item_by_name(all_items, item_name, 1) = 0
                                                  THEN "404" ELSE "500"]]
                           /\ UNCHANGED clock
                      ELSE /\ clock' = clock + 1
                           /\ upd' = [upd EXCEPT ![u] =
                                  [request EXCEPT
                                      !.pc = "commit", !.row = id,
                                      !.doc = ApplyUpdate(rows[id], item_name, interpreted_text,
                                                          review_comment, reviewed_by, clock')]]
    /\ UNCHANGED <<cfg, views, call, chart, rows, run>>

\* an update that goes on to the aggregate without the commit of the document
UpdCommit_Skip(u) ==
    /\ upd[u].pc = "commit"
    /\ upd' = [upd EXCEPT ![u].pc = "agg_read"]
    /\ UNCHANGED <<cfg, views, call, chart, rows, run, clock>>

\* flag_modified + commit: the UPDATE of the row; it raises when a run has
\* deleted the row
UpdCommit(u) ==
    /\ upd[u].pc = "commit"
    /\ IF upd[u].row \in DOMAIN rows
       THEN /\ rows' = [rows EXCEPT ![upd[u].row] = upd[u].doc]
            /\ upd' = [upd EXCEPT ![u].pc = "agg_read"]
       ELSE /\ upd' = [upd EXCEPT ![u].pc = "done", ![u].outcome = "500"]
            /\ UNCHANGED rows
    /\ UNCHANGED <<cfg, views, call, chart, run, clock>>

\* the reads after the commit: the unified lookup of the updated item and
\* get_review_items of update_chart_review_status_after_item_update
UpdAggRead(u) ==
    /\ upd[u].pc = "agg_read"
    /\ \/ /\ DOMAIN rows = {}
          /\ upd' = [upd EXCEPT ![u].pc = "done", ![u].outcome = "500"]
       \/ \E id \in DOMAIN rows :
             IF find_item_by_name(get_all_items_unified(rows[id]), upd[u].item_name, 1) = 0
             THEN upd' = [upd EXCEPT ![u].pc = "done", ![u].outcome = "500"]
             ELSE upd' = [upd EXCEPT
                             ![u].pc = "agg_write",
                             ![u].needs_review = RecomputeAggregate(rows[id]).needs_review,
                             ![u].reviewed_by = RecomputeAggregate(rows[id]).reviewed_by]
    /\ UNCHANGED <<cfg, views, call, chart, rows, run, clock>>

\* update_chart_review_status and its commit
UpdAggWrite(u) ==
    /\ upd[u].pc = "agg_write"
    /\ chart' = update_chart_review_status(chart, upd[u].needs_review, NoConfidence,
                                           upd[u].reviewed_by, clock)
    /\ upd' = [upd EXCEPT ![u].pc = "done", ![u].outcome = "200"]
    /\ UNCHANGED <<cfg, views, call, rows, run, clock>>

UpdStep(u) ==
    \/ UpdCommit(u)
    \/ UpdAggRead(u)
    \/ UpdAggWrite(u)

\* the process is killed between the commit of the document and the commit
\* of the chart's aggregate
UpdCrash(u) ==
    /\ upd[u].pc \in {"agg_read", "agg_write"}
    /\ upd' = [upd EXCEPT ![u].pc = "done", ![u].outcome = "crash"]
    /\ UNCHANGED <<cfg, views, call, chart, rows, run, clock>>

\* --------------------------------------------- the other document operations
\* the time a call reads: the clock has ticked, or stands at MaxClock
Tick == IF clock < MaxClock THEN clock + 1 ELSE clock

\* POST /{chart_id}/convert-format: convert_data_format and
\* convert_to_standard_format
ConvertFormat ==
    /\ Quiet
    /\ call.n < MaxCalls
    /\ \/ /\ DOMAIN rows = {}
          /\ call' = [NoCall EXCEPT !.op = "convert", !.n = call.n + 1, !.outcome = "404"]
          /\ UNCHANGED rows
       \/ \E id \in DOMAIN rows :
             /\ rows' = [rows EXCEPT ![id] = convert_to_standard_format(@)]
             /\ call' = [NoCall EXCEPT !.op = "convert", !.n = call.n + 1, !.row = id,
                                       !.before = rows[id], !.returned = TRUE,
                                       !.outcome = "200"]
    /\ UNCHANGED <<cfg, views, chart, run, upd, clock>>

\* update_item_review_status: the document, then the chart.  Two calls may
\* read the same time.
ServiceUpdate ==
    /\ Quiet
    /\ call.n < MaxCalls
    /\ \E item_name \in UpdateNames, interpreted_text \in ServiceTexts,
          review_comment \in ServiceComments, reviewed_by \in ServiceReviewers,
          now \in {Tick} \cup (IF call.op = "update" /\ call.now = clock
                                THEN {clock} ELSE {}) :
          \/ /\ DOMAIN rows = {}
             /\ call' = [NoCall EXCEPT !.op = "update", !.n = call.n + 1,
                                       !.item_name = item_name]
             /\ UNCHANGED <<rows, chart, clock>>
          \/ \E id \in DOMAIN rows :
                \E res \in {update_item_review_status(rows[id], item_name, interpreted_text,
                                                      review_comment, reviewed_by, now)} :
                   IF ~res.found
                   THEN /\ call' = [NoCall EXCEPT !.op = "update", !.n = call.n + 1,
                                                  !.row = id, !.before = rows[id],
                                                  !.item_name = item_name]
                        /\ UNCHANGED <<rows, chart, clock>>
                   ELSE /\ rows' = [rows EXCEPT ![id] = res.data]
                        /\ chart' = update_chart_review_status(
                                        chart, res.still_needs_review, NoConfidence,
                                        IF ~res.still_needs_review THEN reviewed_by ELSE NoneS,
                                        now)
                        /\ clock' = now
                        /\ call' = [NoCall EXCEPT !.op = "update", !.n = call.n + 1,
                                                  !.row = id, !.before = rows[id],
                                                  !.now = now, !.item_name = item_name,
                                                  !.returned = TRUE]
    /\ UNCHANGED <<cfg, views, run, upd>>

\* update_chart_review_status_after_item_update called on its own
Recompute ==
    /\ Quiet
    /\ \E doc \in IF DOMAIN rows = {} THEN {EmptyDoc} ELSE {rows[id] : id \in DOMAIN rows} :
          \E agg \in {RecomputeAggregate(doc)} :
             /\ chart' = update_chart_review_status(chart, agg.needs_review, NoConfidence,
                                                    agg.reviewed_by, Tick)
             /\ call' = [call EXCEPT !.op = "recompute", !.before = doc, !.now = Tick]
    /\ clock' = Tick
    /\ UNCHANGED <<cfg, views, rows, run, upd>>

\* ------------------------------------------------------- the GET requests
\* set_cached_status: only the statuses 'completed' and 'failed' are cached
set_cached_status(cache, chart_id, status) ==
    IF status \in {COMPLETED, FAILED} THEN [cache EXCEPT ![chart_id] = status] ELSE cache

\* set_cached_result: only the result of a completed chart is cached
set_cached_result(cache, chart_id, result) ==
    IF result.status = COMPLETED THEN [cache EXCEPT ![chart_id] = result] ELSE cache

\* the other chart: completed, one field, not to be reviewed
OtherChartRow ==
    [NewChart(NoneS) EXCEPT !.status = COMPLETED,
                            !.overall_confidence_score = [num |-> SCALE, den |-> 1]]
OtherDoc ==
    process_extracted_items(<< RawItem(N_shuso, <<"a">>) >>,
                            << InterpretedItem(N_shuso, <<"a">>) >>, <<N_shuso>>).data

\* get_chart_by_id and get_extracted_data_by_chart_id (EmptyDoc for None)
ChartRow(chart_id) == IF chart_id = ThisChart THEN chart ELSE OtherChartRow
ExtractedDocs(chart_id) ==
    IF chart_id = OtherChart THEN {OtherDoc}
    ELSE IF DOMAIN rows = {} THEN {EmptyDoc}
    ELSE {rows[id] : id \in DOMAIN rows}

\* extracted_items of get_chart_result: the records of review_items when the
\* list is not empty, with similarity_score 1.0, else the legacy entries
ResultItem(rec, similarity_score) ==
    [item_name |-> rec.item_name, raw_text |-> rec.raw_text,
     interpreted_text |-> rec.interpreted_text, similarity_score |-> similarity_score,
     confidence_score |-> rec.confidence_score, needs_review |-> rec.needs_review,
     review_comment |-> rec.review_comment, reviewed_by |-> rec.reviewed_by,
     reviewed_at |-> rec.reviewed_at]

ResultItems(doc) ==
    IF doc.has_review_items /\ doc.review_items # <<>>
    THEN [i \in 1..Len(doc.review_items) |-> ResultItem(doc.review_items[i], SCALE)]
    ELSE [i \in 1..Len(doc.legacy) |->
             ResultItem(doc.legacy[i], doc.legacy[i].similarity_score)]

\* the response get_chart_result builds from the database
ResultResponse(c, doc) ==
    IF c.status = COMPLETED
    THEN [NoResponse EXCEPT !.status = c.status,
                            !.extracted_items = ResultItems(doc),
                            !.needs_review = IF doc # EmptyDoc THEN c.needs_review ELSE FALSE,
                            !.reviewed_by = IF doc # EmptyDoc THEN c.reviewed_by ELSE NoneS]
    ELSE IF c.status = FAILED
    THEN [NoResponse EXCEPT !.status = c.status, !.error_message = c.error_message,
                            !.message = "Processing failed."]
    ELSE [NoResponse EXCEPT !.status = c.status, !.message = "Processing not completed."]

\* GET /{chart_id}/status: the cached status when there is one that has not
\* expired, else the chart's status, which is cached
GetStatus(chart_id) ==
    /\ \E expired \in BOOLEAN :
          LET cached_status == IF expired THEN NoneS ELSE status_cache[chart_id]
          IN IF cached_status # NoneS
             THEN /\ reply' = [op |-> "status", chart_id |-> chart_id, cached |-> TRUE,
                               response |-> [NoResponse EXCEPT !.status = cached_status]]
                  /\ UNCHANGED status_cache
             ELSE /\ reply' = [op |-> "status", chart_id |-> chart_id, cached |-> FALSE,
                               response |-> [NoResponse EXCEPT
                                                !.status = ChartRow(chart_id).status,
                                                !.error_message =
                                                    ChartRow(chart_id).error_message]]
                  /\ status_cache' = set_cached_status(
                                        [status_cache EXCEPT ![chart_id] = NoneS],
                                        chart_id, ChartRow(chart_id).status)
    /\ UNCHANGED <<cfg, stage, probe, result_cache, call, chart, rows, run, upd, clock>>

\* GET /{chart_id}: the cached result, else the reply for a cached status
\* that is not 'completed', else the response from the database, which is
\* cached when the chart is completed, as is its status
GetResult(chart_id) ==
    /\ \E result_expired \in BOOLEAN, status_expired \in BOOLEAN :
          LET cached_result == IF result_expired THEN NoResponse ELSE result_cache[chart_id]
              cached_status == IF status_expired THEN NoneS ELSE status_cache[chart_id]
          IN IF cached_result # NoResponse
             THEN /\ reply' = [op |-> "result", chart_id |-> chart_id, cached |-> TRUE,
                               response |-> cached_result]
                  /\ UNCHANGED <<status_cache, result_cache>>
             ELSE IF cached_status # NoneS /\ cached_status # COMPLETED
             THEN /\ reply' = [op |-> "result", chart_id |-> chart_id, cached |-> TRUE,
                               response |-> [NoResponse EXCEPT
                                                !.status = cached_status,
                                                !.message = "Processing not completed."]]
                  /\ result_cache' = [result_cache EXCEPT ![chart_id] = NoResponse]
                  /\ UNCHANGED status_cache
             ELSE \E doc \in ExtractedDocs(chart_id) :
                     \E response \in {ResultResponse(ChartRow(chart_id), doc)} :
                        /\ reply' = [op |-> "result", chart_id |-> chart_id,
                                     cached |-> FALSE, response |-> response]
                        /\ result_cache' = set_cached_result(
                                              [result_cache EXCEPT ![chart_id] = NoResponse],
                                              chart_id, response)
                        /\ status_cache' = set_cached_status(
                                              [status_cache EXCEPT ![chart_id] = cached_status],
                                              chart_id, ChartRow(chart_id).status)
    /\ UNCHANGED <<cfg, stage, probe, call, chart, rows, run, upd, clock>>

\* ---------------------------------- the stage calls, attempt by attempt
\* the code fence of three backquotes, and the fence followed by json
Fence == "fence"
JsonFence == "fence json"

\* the tokens of a response text: the two fences, a JSON list and text that
\* is not JSON
Tokens == {JsonFence, Fence, "[]", "x"}
ResponseTexts == UNION {[1..n -> Tokens] : n \in 0..MaxTokens}

\* generate_content raised, or it returned a response with this text
Raised == [ok |-> FALSE, text |-> NoneT]
Response(text) == [ok |-> TRUE, text |-> text]
RawTextResponses == {Raised, Response(NoneT), Response(<<>>), Response(<<"x">>)}
JsonResponses == {Raised, Response(NoneT)} \cup {Response(t) : t \in ResponseTexts}

\* the first token of text[from..] that is one of tokens, 0 when there is none
FirstToken(text, tokens, from) ==
    IF \E i \in from..Len(text) : text[i] \in tokens
    THEN CHOOSE i \in from..Len(text) :
            text[i] \in tokens /\ \A j \in from..(i - 1) : text[j] \notin tokens
    ELSE 0

\* split(json fence)[1].split(fence)[0] when the text has a json fence,
\* split(fence)[1].split(fence)[0] when it has a fence, else the text
Unfence(json_text) ==
    LET start == IF FirstToken(json_text, {JsonFence}, 1) # 0
                 THEN FirstToken(json_text, {JsonFence}, 1)
                 ELSE FirstToken(json_text, {Fence}, 1)
        stop == FirstToken(json_text, {Fence, JsonFence}, start + 1)
    IN IF start = 0
       THEN json_text
       ELSE SubSeq(json_text, start + 1, IF stop = 0 THEN Len(json_text) ELSE stop - 1)

\* a variant: text that is not JSON is returned as it is
json_loads_Lenient(json_text) ==
    IF Len(json_text) > 0 THEN json_text[1] ELSE "JSONDecodeError"

\* json.loads: the value of a text that is one JSON value
json_loads(json_text) ==
    IF json_text = <<"[]">>
    THEN json_text[1]
    ELSE "JSONDecodeError"

\* 0.5 + random.random(), in quarters
Jitters == 2..5

\* initial_delay * (2 ** (retries - 1)) * (0.5 + random.random()), in quarters
\* of a second
wait_time(retries, jitter) == InitialDelay * 2^(retries - 1) * jitter

\* the except clause of the loop: st is the call with the attempt counted
StageFail(st, kind) ==
    LET retries == NextRetries(st.retries)
        e == [attempt |-> st.attempts, kind |-> kind]
    IN IF RetryAgain(retries)
       THEN \E jitter \in Jitters :
               stage' = [st EXCEPT !.retries = retries, !.error = e, !.pc = "sleep",
                                   !.waits = Append(@, wait_time(retries, jitter))]
       ELSE stage' = [st EXCEPT !.retries = retries, !.error = e, !.pc = "raised",
                                !.raised = e]

\* the response that is to hold the JSON: its text is unfenced and loaded
StageParse(st, response) ==
    LET s1 == [st EXCEPT !.response = response]
    IN IF ~response.ok
       THEN StageFail(s1, "call")
       ELSE IF response.text = NoneT
       THEN StageFail(s1, "TypeError")
       ELSE IF json_loads(Unfence(response.text)) = "JSONDecodeError"
       THEN StageFail(s1, "ValueError: Failed to parse JSON")
       ELSE stage' = [s1 EXCEPT !.pc = "returned",
                                !.returned = json_loads(Unfence(response.text))]

\* the call of one of the two stage functions begins
StageCall(fn) ==
    /\ stage.pc = "idle"
    /\ stage' = [NoStage EXCEPT !.fn = fn, !.pc = "attempt"]
    /\ UNCHANGED <<cfg, probe, status_cache, result_cache, reply, call, chart, rows, run, upd, clock>>

\* one pass of the while loop up to its return, its sleep or its raise
StageAttempt ==
    /\ stage.pc = "attempt"
    /\ LET st == [stage EXCEPT !.attempts = @ + 1]
       IN \/ /\ cfg = "api_key" /\ stage.fn = "extract_raw_data_from_image"
             /\ \E raw_text_response \in RawTextResponses :
                   LET s1 == [st EXCEPT !.response = raw_text_response]
                   IN IF ~raw_text_response.ok
                      THEN StageFail(s1, "call")
                      ELSE IF raw_text_response.text \in {NoneT, <<>>}
                      THEN StageFail(s1, "ValueError: No text")
                      ELSE \E structure_response \in JsonResponses :
                              StageParse(st, structure_response)
          \/ /\ cfg = "api_key" /\ stage.fn = "interpret_extracted_data"
             /\ \E interpretation_response \in JsonResponses :
                   StageParse(st, interpretation_response)
          \/ /\ cfg = "project_id" /\ stage.fn = "extract_raw_data_from_image"
             /\ stage' = [st EXCEPT !.pc = "raised",
                                    !.raised = [attempt |-> 0, kind |-> "RuntimeError"]]
          \/ /\ \/ cfg = "mock"
                \/ cfg = "project_id" /\ stage.fn = "interpret_extracted_data"
             /\ stage' = [st EXCEPT !.pc = "returned", !.returned = "mock"]
    /\ UNCHANGED <<cfg, probe, status_cache, result_cache, reply, call, chart, rows, run, upd, clock>>

\* asyncio.sleep(wait_time) ends
StageWake ==
    /\ stage.pc = "sleep"
    /\ stage' = [stage EXCEPT !.pc = "attempt"]
    /\ UNCHANGED <<cfg, probe, status_cache, result_cache, reply, call, chart, rows, run, upd, clock>>

\* ------------------------------------- the scoring functions on their own
\* scores: None, 0.0, the two thresholds, the values just below them, 1.0
ScoreValues ==
    {NoneNum, 0, CONFIDENCE_THRESHOLD - 1, CONFIDENCE_THRESHOLD,
     SIMILARITY_THRESHOLD - 1, SIMILARITY_THRESHOLD, SCALE}

\* values of the module-level settings
SettingValues == {0, CONFIDENCE_THRESHOLD, SIMILARITY_THRESHOLD, SCALE}

\* texts: None, the empty text, a blank, texts of one, two and five letters
ProbeTexts ==
    {NoneT, <<>>, <<" ">>, <<"a">>, <<"b">>, <<"a", "b">>, <<" ", "a">>,
     <<"a", "b", "c", "d", "e">>, <<"a", "b", "c", "d", "x">>}

\* thresholds of a template item: NULL, 0.0, 0.5, 0.7, 0.8, 1.0
ThresholdValues ==
    {NoneNum, 0, SCALE \div 2, CONFIDENCE_THRESHOLD, SIMILARITY_THRESHOLD, SCALE}

\* the enabled items of a template: an item of the field's name with its
\* thresholds, or only an item of another name
ProbeTemplates ==
    { << TemplateItem(N_genbyoreki, TRUE, SIMILARITY_THRESHOLD, CONFIDENCE_THRESHOLD,
                      CONFIDENCE_THRESHOLD) >> }
    \cup { << TemplateItem(N_shuso, TRUE, tt, vt, ct) >> :
             tt \in ThresholdValues, vt \in ThresholdValues,
             ct \in {CONFIDENCE_THRESHOLD, SIMILARITY_THRESHOLD} }

\* the calls of the scoring functions
ProbeInputs ==
    { [NoProbe EXCEPT !.fn = "should_review", !.similarity_score = s,
                      !.confidence_score = c, !.error_occurred = e,
                      !.similarity_threshold = st, !.confidence_threshold = ct] :
         s \in ScoreValues, c \in ScoreValues, e \in BOOLEAN,
         st \in SettingValues, ct \in SettingValues }
    \cup { [NoProbe EXCEPT !.fn = "similarity", !.raw_text = r, !.interpreted_text = i] :
             r \in ProbeTexts, i \in ProbeTexts }
    \cup { [NoProbe EXCEPT !.fn = "template", !.raw_text = r, !.interpreted_text = i,
                           !.template_items = t] :
             r \in ProbeTexts \ {<<" ">>, <<"b">>, <<" ", "a">>},
             i \in ProbeTexts \ {<<" ">>, <<"b">>, <<" ", "a">>},
             t \in ProbeTemplates }

\* should_review with the settings of the call
ApplyShouldReview ==
    /\ probe.fn = "should_review" /\ ~probe.applied
    /\ probe' = [probe EXCEPT
                    !.applied = TRUE,
                    !.result = should_review_at(probe.similarity_score,
                                                probe.confidence_score,
                                                probe.error_occurred,
                                                probe.similarity_threshold,
                                                probe.confidence_threshold)]
    /\ UNCHANGED <<cfg, status_cache, result_cache, reply, stage, call, chart, rows, run, upd, clock>>

\* the two scorers on one pair of texts
ApplySimilarity ==
    /\ probe.fn = "similarity" /\ ~probe.applied
    /\ probe' = [probe EXCEPT
                    !.applied = TRUE,
                    !.similarity_score =
                        calculate_levenshtein_similarity(probe.raw_text,
                                                         probe.interpreted_text),
                    !.confidence_score =
                        calculate_semantic_similarity(probe.raw_text,
                                                      probe.interpreted_text)]
    /\ UNCHANGED <<cfg, status_cache, result_cache, reply, stage, call, chart, rows, run, upd, clock>>

\* one pass of the loop of process_chart_with_template over a raw item
ApplyTemplate ==
    /\ probe.fn = "template" /\ ~probe.applied
    /\ LET raw_items == << RawItem(N_shuso, probe.raw_text) >>
           interpreted_items == << InterpretedItem(N_shuso, probe.interpreted_text) >>
       IN IF TemplateRaises(raw_items, interpreted_items, probe.template_items)
          THEN probe' = [probe EXCEPT !.applied = TRUE, !.result = "TypeError"]
          ELSE \E rec \in {TemplateRecord(1, raw_items, interpreted_items,
                                          probe.template_items)} :
                  probe' = [probe EXCEPT !.applied = TRUE,
                                         !.similarity_score = rec.similarity_score,
                                         !.confidence_score = rec.confidence_score,
                                         !.error_occurred = rec.error_occurred,
                                         !.result = rec.needs_review]
    /\ UNCHANGED <<cfg, status_cache, result_cache, reply, stage, call, chart, rows, run, upd, clock>>

\* ---------------------------------------------------------- specifications
\* the operations of a chart one after the other
Next ==
    \/ \E r \in Runs : RequestRun(r, TRUE)
    \/ \E r \in Runs : StartRun(r, TRUE)
    \/ \E r \in Runs : RunStep(r, RawOutputs, InterpretedOutputs)
    \/ \E u \in Updates : UpdRead(u, TRUE)
    \/ \E u \in Updates : UpdStep(u)

Spec == Init /\ [][Next]_vars

\* the operations of a chart interleaved: a run in a worker thread, a template
\* run in the event loop and an update in a worker thread
ConcNext ==
    \/ \E r \in Runs : RequestRun(r, FALSE)
    \/ \E r \in Runs : StartRun(r, FALSE)
    \/ \E r \in Runs : RunStep(r, RawOutputsSmall, InterpretedOutputsSmall)
    \/ \E u \in Updates : UpdRead(u, FALSE)
    \/ \E u \in Updates : UpdStep(u)

ConcSpec == InitWith({"api_key"}) /\ [][ConcNext]_vars

\* the runs alone, interleaved, each background task run to its end by the
\* thread pool or the event loop
RunsNext ==
    \/ \E r \in Runs : RequestRun(r, FALSE)
    \/ \E r \in Runs : StartRun(r, FALSE)
    \/ \E r \in Runs : RunStep(r, RawOutputsSmall, InterpretedOutputsSmall)

LiveSpec ==
    /\ InitWith({"api_key"})
    /\ [][RunsNext]_vars
    /\ \A r \in Runs : WF_vars(RunStep(r, RawOutputsSmall, InterpretedOutputsSmall))

\* the answers of the runs of the chart whose document is converted, updated
\* and recomputed: two fields or one, the second without interpretation in
\* one answer
RawOutputsStore ==
    { << RawItem(N_shuso, <<"a", "b">>), RawItem(N_genbyoreki, <<"a">>) >>,
      << RawItem(N_shuso, <<"a", "b">>) >> }
InterpretedOutputsStore ==
    { << InterpretedItem(N_shuso, <<"a", "b">>), InterpretedItem(N_genbyoreki, <<"a">>) >>,
      << InterpretedItem(N_shuso, <<"a", "c">>) >> }

\* the run of the upload and then all the operations on the document of the
\* chart, one after the other
StoreNext ==
    \/ StartRun(1, TRUE)
    \/ RunStep(1, RawOutputsStore, InterpretedOutputsStore)
    \/ \E u \in Updates : UpdRead(u, TRUE)
    \/ \E u \in Updates : UpdStep(u)
    \/ \E u \in Updates : UpdCrash(u)
    \/ ConvertFormat
    \/ ServiceUpdate
    \/ Recompute

StoreSpec == InitWith({"api_key"}) /\ [][StoreNext]_vars

\* the run of the upload, the updates, which may be killed before they write
\* the aggregate, and the recomputation of the aggregate, which a consumer
\* runs again and again; every task and request that is not killed is run
\* to its end
RepairNext ==
    \/ StartRun(1, TRUE)
    \/ RunStep(1, RawOutputsSmall, InterpretedOutputsSmall)
    \/ \E u \in Updates : UpdRead(u, TRUE)
    \/ \E u \in Updates : UpdStep(u)
    \/ \E u \in Updates : UpdCrash(u)
    \/ Recompute

RepairSpec ==
    /\ InitWith({"api_key"})
    /\ [][RepairNext]_vars
    /\ WF_vars(StartRun(1, TRUE))
    /\ WF_vars(RunStep(1, RawOutputsSmall, InterpretedOutputsSmall))
    /\ \A u \in Updates : WF_vars(UpdStep(u))
    /\ WF_vars(Recompute)

\* the runs of the chart, one after the other, and the GET requests for the
\* chart and for the other chart between their steps
CacheNext ==
    \/ \E r \in Runs : RequestRun(r, TRUE)
    \/ \E r \in Runs : StartRun(r, TRUE)
    \/ \E r \in Runs : RunStep(r, RawOutputsSmall, InterpretedOutputsSmall)
    \/ \E chart_id \in ChartIds : GetStatus(chart_id)
    \/ \E chart_id \in ChartIds : GetResult(chart_id)

CacheSpec == InitWith({"api_key"}) /\ [][CacheNext]_vars

\* one call of a stage function
RetryNext ==
    \/ \E fn \in {"extract_raw_data_from_image", "interpret_extracted_data"} : StageCall(fn)
    \/ StageAttempt
    \/ StageWake

RetrySpec == InitWith(Configs) /\ [][RetryNext]_vars

\* the scoring functions applied to arguments drawn at the start
ScoreNext ==
    \/ ApplyShouldReview
    \/ ApplySimilarity
    \/ ApplyTemplate

ScoreSpec == (ProgramInit({"mock"}) /\ probe \in ProbeInputs) /\ [][ScoreNext]_vars

\* the run of the upload to its end, then field updates in worker threads of
\* their own, interleaved with one another
RaceNext ==
    \/ StartRun(1, TRUE)
    \/ RunStep(1, RawOutputsStore, InterpretedOutputsStore)
    \/ \E u \in Racers : run[1].pc = "done" /\ UpdRead(u, FALSE)
    \/ \E u \in Racers : UpdStep(u)

RaceSpec == InitWith({"api_key"}) /\ [][RaceNext]_vars

\* the run of the upload to its end, then a field update, and the GET
\* requests for the chart's result before, during and after the update
ReadNext ==
    \/ StartRun(1, TRUE)
    \/ RunStep(1, RawOutputsSmall, InterpretedOutputsSmall)
    \/ \E u \in Updates : run[1].pc = "done" /\ UpdRead(u, TRUE)
    \/ \E u \in Updates : UpdStep(u)
    \/ GetResult(ThisChart)

ReadSpec == InitWith({"api_key"}) /\ [][ReadNext]_vars

\* ------------------------------------------------------------------ claims
\* the status a run wrote last
LastWritten(r) == run[r].written[Len(run[r].written)]

\* the field records of a document, in the unified view
Fields(doc) == get_all_items_unified(doc)

\* C1: a run writes PROCESSING first, then at most one more status, which is
\* COMPLETED, PARTIAL_SUCCESS or FAILED, and nothing after it; with the
\* operations one after the other the chart's status leaves PROCESSING only
\* for one of these three.
C1_StatusTransitions ==
    [][ /\ \A r \in Runs :
              run'[r].written # run[r].written =>
                  \/ run[r].written = <<>> /\ run'[r].written = <<PROCESSING>>
                  \/ /\ run[r].written = <<PROCESSING>>
                     /\ \E t \in Terminal : run'[r].written = <<PROCESSING, t>>
        /\ chart.status = PROCESSING => chart'.status \in {PROCESSING} \cup Terminal
        /\ chart'.status # chart.status =>
              \E r \in Runs : run'[r].written = Append(run[r].written, chart'.status)
      ]_vars

\* a default run ended PARTIAL_SUCCESS and a template run after it FAILED
C1_Witness ==
    /\ run[1].kind = "default" /\ run[1].written = <<PROCESSING, PARTIAL_SUCCESS>>
    /\ run[2].kind = "template" /\ run[2].written = <<PROCESSING, FAILED>>
    /\ chart.status = FAILED

\* C2: when stage 2 fails on every attempt the run ends PARTIAL_SUCCESS, its
\* document is persisted, every field of it has interpreted_text = raw_text,
\* error_occurred and needs_review, and the chart needs review; for the
\* default run and for the template run (process with template, reprocess).
C2_Stage2FailureDegrades ==
    [][ \A r \in Runs :
           (run[r].pc # "done" /\ run'[r].pc = "done"
            /\ run'[r].s2_calls = 1 /\ ~run'[r].s2_returned) =>
               /\ chart'.status = PARTIAL_SUCCESS
               /\ chart'.needs_review
               /\ r \in DOMAIN rows'
               /\ \A i \in 1..Len(Fields(rows'[r])) :
                     LET f == Fields(rows'[r])[i]
                     IN f.interpreted_text = f.raw_text /\ f.error_occurred /\ f.needs_review
      ]_vars

\* C3: when stage 1 returns the empty list the default field set is
\* substituted and the run goes on: it does not fail for that, and the
\* document it persists has the default fields, not zero fields.
C3_EmptyStage1Substituted ==
    \A r \in Runs :
       (run[r].s1_returned /\ run[r].stage1_output = <<>>) =>
           /\ ~(run[r].pc = "done" /\ run[r].s2_calls = 0)
           /\ run[r].inserted =>
                 SeqToSet(ItemNames(Fields(run[r].result.data))) = SeqToSet(DefaultItems)

\* C4: every run that has written PROCESSING writes COMPLETED,
\* PARTIAL_SUCCESS or FAILED in the end (the retries of the stages are
\* bounded), when the background tasks are run to their end.
C4_RunsTerminate ==
    \A r \in Runs :
       (run[r].written = <<PROCESSING>>) ~>
           (Len(run[r].written) = 2 /\ LastWritten(r) \in Terminal)

\* a template run whose stage 2 failed on every attempt has ended FAILED
C4_Witness ==
    \E r \in Runs :
       /\ run[r].kind = "template" /\ run[r].image = "bytes"
       /\ run[r].s2_calls = 1 /\ ~run[r].s2_returned
       /\ run[r].written = <<PROCESSING, FAILED>>
       /\ run[r].message = "stage 2 error"

\* C5: when the image cannot be fetched the run ends FAILED with an error
\* message, calls no AI stage and creates or replaces no document; for the
\* default run and for the template run.
C5_FetchFailureFails ==
    \A r \in Runs :
       run[r].image = "none" =>
           /\ run[r].s1_calls = 0 /\ run[r].s2_calls = 0
           /\ ~run[r].inserted
           /\ run[r].pc = "done" =>
                 (run[r].written = <<PROCESSING, FAILED>> /\ run[r].message # NoneS)

\* C6: when stage 1 fails on every attempt (it raises) the run ends FAILED
\* with an error message, stage 2 is never called and no document is
\* created or replaced.
C6_Stage1FailureFails ==
    [][ \A r \in Runs :
           /\ (run[r].pc = "stage1" /\ run'[r].pc # "stage1" /\ ~run'[r].s1_returned) =>
                 /\ run'[r].pc = "done"
                 /\ run'[r].written = <<PROCESSING, FAILED>>
                 /\ chart'.status = FAILED
                 /\ chart'.error_message = run'[r].message
                 /\ run'[r].message # NoneS
                 /\ rows' = rows
           /\ ~run'[r].s1_returned => (run'[r].s2_calls = 0 /\ ~run'[r].inserted)
      ]_vars

\* a run with an image has ended FAILED after the last retry of stage 1
C6_Witness ==
    \E r \in Runs :
       /\ cfg = "api_key" /\ run[r].image = "bytes"
       /\ run[r].pc = "done" /\ run[r].s1_calls = 1 /\ ~run[r].s1_returned
       /\ run[r].message = "stage 1 error"
       /\ chart.status = FAILED /\ chart.error_message = "stage 1 error"

\* C7: a run that persisted its document ends PARTIAL_SUCCESS when stage 2
\* was degraded or a persisted field has error_occurred, and COMPLETED
\* otherwise; for the default run and for the template run.
C7_FinalStatusRule ==
    \A r \in Runs :
       (run[r].pc = "done" /\ run[r].inserted) =>
           LET degraded ==
                   \/ run[r].interpretation_error
                   \/ \E i \in 1..Len(Fields(run[r].result.data)) :
                         Fields(run[r].result.data)[i].error_occurred
           IN LastWritten(r) = IF degraded THEN PARTIAL_SUCCESS ELSE COMPLETED

\* C8: the persisted document has exactly one record for every name of the
\* output of stage 1 or of the output of stage 2; a name that is in only
\* one of them is kept and does not fail the run.
C8_FieldSetIsUnion ==
    \A r \in Runs :
       /\ run[r].inserted =>
             LET fields == Fields(run[r].result.data)
                 names == SeqToSet(ItemNames(run[r].stage1_output))
                             \cup SeqToSet(ItemNames(run[r].interpreted_items))
             IN /\ SeqToSet(ItemNames(fields)) = names
                /\ Len(fields) = Cardinality(names)
       /\ (run[r].pc = "done" /\ run[r].s2_returned) => LastWritten(r) # FAILED

\* C9: once a run has persisted a document the chart has exactly one
\* extraction result in every later state, also when two runs interleave.
C9_OneResultPerChart ==
    /\ Cardinality(DOMAIN rows) <= 1
    /\ (\E r \in Runs : run[r].inserted) => Cardinality(DOMAIN rows) = 1

\* C10: when the chart's needs_review is false no field record of its
\* document has needs_review true, also when the aggregate recomputation of
\* an update interleaves with a run that replaces the document.  Stated for
\* the states in which no operation is under way, of a chart that has one
\* document and whose runs are template runs (their persist steps do not
\* interleave with one another, so that only the update interleaves).
C10_AggregateCoversFields ==
    (/\ Quiet
     /\ Cardinality(DOMAIN rows) = 1
     /\ \A r \in Runs : run[r].kind # "default"
     /\ ~chart.needs_review) =>
        \A id \in DOMAIN rows :
           \A i \in 1..Len(Fields(rows[id])) : ~Fields(rows[id])[i].needs_review

\* C11: every field record of a stored document that has error_occurred has
\* needs_review: the records a run produced, and still after the review
\* update of such a field.
C11_ErrorImpliesNeedsReview ==
    \A id \in DOMAIN rows :
       \A i \in 1..Len(Fields(rows[id])) :
          Fields(rows[id])[i].error_occurred => Fields(rows[id])[i].needs_review

\* the array record of a name of a document (0: none) and its legacy entry
ArrayIndex(doc, item_name) ==
    IF doc.has_review_items THEN IndexOfName(doc.review_items, item_name, 1) ELSE 0

LegacyIndex(doc, item_name) == IndexOfName(doc.legacy, item_name, 1)

\* a record as an update at time now leaves it
Patched(rec, now) == ~rec.needs_review /\ rec.reviewed_at = now

\* the document after is the document before with the update of the name
\* applied to the array record if there is one, else to the legacy entry
UpdatedArrayFirst(before, after, item_name, now) ==
    IF ArrayIndex(before, item_name) # 0
    THEN Patched(after.review_items[ArrayIndex(before, item_name)], now)
    ELSE Patched(after.legacy[LegacyIndex(before, item_name)], now)

\* C12: an update is applied to the record of the name in review_items if
\* there is one, else to the legacy entry of the name, and fails as field not
\* found when there is neither; for update_item of the router and for
\* update_item_review_status of the service.
C12_UpdateArrayThenLegacy ==
    [][ /\ \A u \in Updates :
              (upd[u].pc = "none" /\ upd'[u].pc # "none" /\ upd'[u].row # 0) =>
                  LET before == rows[upd'[u].row]
                      name == upd'[u].item_name
                  IN IF ArrayIndex(before, name) # 0 \/ LegacyIndex(before, name) # 0
                     THEN /\ upd'[u].pc = "commit"
                          /\ UpdatedArrayFirst(before, upd'[u].doc, name, clock')
                     ELSE upd'[u].pc = "done" /\ upd'[u].outcome = "404"
        /\ (call'.op = "update" /\ call'.n # call.n /\ call'.row # 0) =>
              LET before == call'.before
                  name == call'.item_name
              IN IF ArrayIndex(before, name) # 0 \/ LegacyIndex(before, name) # 0
                 THEN /\ call'.returned
                      /\ UpdatedArrayFirst(before, rows'[call'.row], name, call'.now)
                 ELSE ~call'.returned /\ rows' = rows
      ]_vars

\* C13: in every stored document a name that has a legacy entry and a
\* review_items record has the same interpreted_text, review_comment,
\* needs_review, reviewed_by and reviewed_at in both, after any sequence of
\* runs and field updates.
C13_LayoutsAgree ==
    \A id \in DOMAIN rows :
       rows[id].has_review_items =>
          \A i \in 1..Len(rows[id].legacy), j \in 1..Len(rows[id].review_items) :
             LET l == rows[id].legacy[i]
                 a == rows[id].review_items[j]
             IN l.item_name = a.item_name =>
                   /\ l.interpreted_text = a.interpreted_text
                   /\ l.review_comment = a.review_comment
                   /\ l.needs_review = a.needs_review
                   /\ l.reviewed_by = a.reviewed_by
                   /\ l.reviewed_at = a.reviewed_at

\* the record of a name in the unified view of a document
UnifiedRecord(doc, item_name) ==
    get_all_items_unified(doc)[find_item_by_name(get_all_items_unified(doc), item_name, 1)]

\* C14: when update_item has committed its patch of a field, of a document in
\* legacy layout or in array layout, the unified view of the field shows the
\* interpreted_text and the review_comment of the request, needs_review =
\* false and the reviewer of the request; a value the request does not give
\* is the stored value of before.
C14_UpdateThenUnify ==
    [][ \A u \in Updates :
           (upd[u].pc = "commit" /\ upd'[u].pc = "agg_read") =>
               LET before == UnifiedRecord(rows[upd[u].row], upd[u].item_name)
                   after == UnifiedRecord(rows'[upd[u].row], upd[u].item_name)
               IN /\ after.interpreted_text =
                        IF upd[u].interpreted_text # NoneT
                        THEN upd[u].interpreted_text ELSE before.interpreted_text
                  /\ after.review_comment =
                        IF upd[u].review_comment # NoneS
                        THEN upd[u].review_comment ELSE before.review_comment
                  /\ ~after.needs_review
                  /\ after.reviewed_by = upd[u].by
      ]_vars

\* the update of a field with a text and without a comment is committed on a
\* document in legacy layout, which has got the review_items array of this
\* one field by it
C14_Witness ==
    \E u \in Updates, id \in DOMAIN rows :
       /\ upd[u].pc = "agg_read" /\ upd[u].row = id
       /\ upd[u].interpreted_text # NoneT /\ upd[u].review_comment = NoneS
       /\ call.op = "convert" /\ rows[id].has_review_items
       /\ Len(rows[id].legacy) = 2 /\ Len(rows[id].review_items) = 1
       /\ UnifiedRecord(rows[id], upd[u].item_name).interpreted_text = upd[u].interpreted_text

\* C15: the unified view of a stored document has every field name of the
\* document exactly once, with the review_items record of the name when there
\* is one (also when there is a legacy entry of the name) and with the legacy
\* entry otherwise; it has nothing else (the keys review_items, raw_items,
\* interpreted_items, template_id, template_name are no fields); for a
\* document in array layout only it is the records of review_items.
C15_UnifyOncePerName ==
    \A id \in DOMAIN rows :
       LET doc == rows[id]
           unified == Fields(doc)
           array == IF doc.has_review_items THEN doc.review_items ELSE <<>>
           names == SeqToSet(ItemNames(array)) \cup SeqToSet(ItemNames(doc.legacy))
       IN /\ SeqToSet(ItemNames(unified)) = names
          /\ \A n \in names : Cardinality({i \in 1..Len(unified) : unified[i].item_name = n}) = 1
          /\ \A i \in 1..Len(unified) :
                IF unified[i].item_name \in SeqToSet(ItemNames(array))
                THEN unified[i] \in SeqToSet(array)
                ELSE unified[i] \in SeqToSet(doc.legacy)
          /\ doc.legacy = <<>> => SeqToSet(unified) = SeqToSet(array)

\* a step of convert_data_format that found the document of the chart
ConvertStep == call'.op = "convert" /\ call'.n # call.n /\ call'.row # 0

\* the keys of a document that are no fields
OtherKeys(doc) == <<doc.raw_items, doc.interpreted_items, doc.template_id, doc.template_name>>

C17_ConvertIdempotent ==
    [][ ConvertStep =>
            /\ convert_to_standard_format(rows'[call'.row]) = rows'[call'.row]
            /\ (/\ call.op = "convert" /\ call.row = call'.row
                /\ call'.before = convert_to_standard_format(call.before)) =>
                  (rows' = rows /\ call'.returned /\ call'.outcome = "200")
      ]_vars

\* the conversion has been called on the document that a call before it had
\* turned from array layout into legacy layout, and has returned true
C17_Witness ==
    /\ call.op = "convert" /\ call.n = 2 /\ call.returned
    /\ call.row \in DOMAIN rows
    /\ ~call.before.has_review_items /\ call.before.legacy # <<>>
    /\ rows[call.row] = call.before
    /\ \A u \in Updates : upd[u].pc = "none"
    /\ \E r \in Runs : run[r].inserted /\ call.before # run[r].result.data

\* a step that writes the aggregate of the document to the chart: the
\* recomputation on its own or the one at the end of update_item
AggregateStep == Recompute \/ \E u \in Updates : UpdAggWrite(u)

\* the document of the chart as the recomputation reads it
StoredDoc == IF DOMAIN rows = {} THEN EmptyDoc ELSE rows[CHOOSE id \in DOMAIN rows : TRUE]

\* the records of the unified view with the latest reviewed_at
LatestReviewed(fields) ==
    {i \in 1..Len(fields) :
        /\ fields[i].reviewed_at # 0
        /\ \A j \in 1..Len(fields) : fields[j].reviewed_at <= fields[i].reviewed_at}

\* C18, as the claim states it: the recomputation makes the chart's
\* needs_review true iff a record of the unified view has needs_review; when
\* it is false the chart's reviewer is the reviewed_by of the record with the
\* latest reviewed_at, the last of them in iteration order when several
\* records have it.
C18_LastOfLatestWins ==
    [][ AggregateStep =>
            LET fields == Fields(StoredDoc)
                latest == LatestReviewed(fields)
                last == CHOOSE i \in latest : \A j \in latest : j <= i
            IN /\ chart'.needs_review = \E i \in 1..Len(fields) : fields[i].needs_review
               /\ (~chart'.needs_review /\ latest # {}) =>
                     chart'.reviewed_by = fields[last].reviewed_by
      ]_vars

\* C18, as the code has it: the same, but the first of the records with the
\* latest reviewed_at in iteration order gives the reviewer; the chart keeps
\* its reviewer when needs_review is true or no record has been reviewed.
C18_FirstOfLatestWins ==
    [][ AggregateStep =>
            LET fields == Fields(StoredDoc)
                latest == LatestReviewed(fields)
                first == CHOOSE i \in latest : \A j \in latest : i <= j
            IN /\ chart'.needs_review = \E i \in 1..Len(fields) : fields[i].needs_review
               /\ chart'.reviewed_by =
                     IF ~chart'.needs_review /\ latest # {}
                     THEN fields[first].reviewed_by ELSE chart.reviewed_by
      ]_vars

\* the recomputation has run on a document whose two fields were reviewed at
\* the same time by two reviewers, and the chart has the reviewer of the first
C18_Witness ==
    /\ call.op = "recompute" /\ Quiet /\ DOMAIN rows # {}
    /\ ~chart.needs_review
    /\ LET fields == Fields(StoredDoc)
       IN /\ Len(fields) = 2
          /\ fields[1].reviewed_at # 0 /\ fields[1].reviewed_at = fields[2].reviewed_at
          /\ fields[1].reviewed_by # fields[2].reviewed_by
          /\ chart.reviewed_by = fields[1].reviewed_by

\* the aggregate of a chart
Aggregate(c) == <<c.needs_review, c.reviewed_by, c.reviewed_at>>

\* C19: an update that fails because the extraction result or the field does
\* not exist leaves the stored documents and the chart's needs_review,
\* reviewed_by and reviewed_at as they were, for update_item and for
\* update_item_review_status; and the step of an update that changes the
\* chart's aggregate is its last, which finds the patched document stored
\* (update_item_review_status stores it in the same call).
C19_FailedUpdateWritesNothing ==
    [][ /\ \A u \in Updates :
              /\ (upd[u].pc = "none" /\ upd'[u].pc = "done") =>
                    (rows' = rows /\ Aggregate(chart') = Aggregate(chart))
              /\ (upd'[u] # upd[u] /\ Aggregate(chart') # Aggregate(chart)) =>
                    /\ UpdAggWrite(u)
                    /\ upd[u].row \in DOMAIN rows /\ rows[upd[u].row] = upd[u].doc
        /\ (call'.op = "update" /\ call'.n # call.n) =>
              IF call'.returned
              THEN \E by \in ServiceReviewers, t \in ServiceTexts, c \in ServiceComments :
                      rows'[call'.row] =
                          update_item_review_status(call'.before, call'.item_name, t, c, by,
                                                    call'.now).data
              ELSE rows' = rows /\ Aggregate(chart') = Aggregate(chart)
      ]_vars

\* update_item and update_item_review_status have both failed for a field
\* that the stored document of the chart does not have
C19_Witness ==
    \E u \in Updates :
       /\ upd[u].pc = "done" /\ upd[u].outcome = "404" /\ upd[u].row \in DOMAIN rows
       /\ find_item_by_name(Fields(rows[upd[u].row]), upd[u].item_name, 1) = 0
       /\ call.op = "update" /\ ~call.returned /\ call.row = upd[u].row
       /\ call.item_name = upd[u].item_name
       /\ call.before = rows[call.row]

\* the chart's needs_review is not the OR of needs_review over the records of
\* the unified view of its document
Drift ==
    chart.needs_review #
        (\E i \in 1..Len(Fields(StoredDoc)) : Fields(StoredDoc)[i].needs_review)

\* C20: from every state in which the chart's needs_review disagrees with
\* the fields of its document (as after an update that was killed between
\* the write of the field and the write of the aggregate) the recomputation
\* of the aggregate leads to a state in which they agree; a step of the
\* recomputation makes them agree, and a step of it on the document and the
\* chart that the recomputation before it has left changes nothing.
C20_RecomputeRepairs ==
    /\ Drift ~> ~Drift
    /\ [][ Recompute =>
              /\ ~Drift'
              /\ (call.op = "recompute" /\ call.before = StoredDoc) => chart' = chart
         ]_vars

\* C21: a reprocess request on a chart whose run has ended takes the chart's
\* status from COMPLETED, PARTIAL_SUCCESS or FAILED to PENDING, and the run
\* takes it from PENDING to PROCESSING; the status never goes from one of the
\* three to PROCESSING in one step.
C21_ReprocessReentersPending ==
    [][ /\ (chart.status \in Terminal /\ chart'.status # chart.status) =>
               chart'.status = PENDING
        /\ \A r \in Runs :
              (run[r].pc = "none" /\ run'[r].pc = "queued" /\ chart.status \in Terminal) =>
                  chart'.status = PENDING
      ]_vars

\* C22: the step of a reprocess or process-with-template request that queues
\* the run leaves the chart without entry in the status cache and in the
\* result cache and leaves the entries of the other chart as they are; the
\* run writes nothing before that step (it starts from the queue).
C22_RequestClearsCaches ==
    [][ \A r \in Runs :
           /\ (run[r].pc = "none" /\ run'[r].pc = "queued") =>
                 /\ status_cache'[ThisChart] = NoneS
                 /\ result_cache'[ThisChart] = NoResponse
                 /\ status_cache'[OtherChart] = status_cache[OtherChart]
                 /\ result_cache'[OtherChart] = result_cache[OtherChart]
                 /\ run'[r].written = <<>> /\ chart' = chart
           /\ run'[r].written # run[r].written /\ run[r].written = <<>> =>
                 run[r].pc = "queued"
      ]_vars

\* the result of the chart was read from the database and cached, as was the
\* result of the other chart before; then the reprocess request was made:
\* the run is queued, the chart has no cache entry, the other chart has both
C22_Witness ==
    /\ reply.op = "result" /\ reply.chart_id = ThisChart /\ ~reply.cached
    /\ reply.response.status = COMPLETED
    /\ run[2].pc = "queued"
    /\ status_cache[ThisChart] = NoneS /\ result_cache[ThisChart] = NoResponse
    /\ status_cache[OtherChart] = COMPLETED /\ result_cache[OtherChart] # NoResponse

\* C23: within one stage call a new attempt starts only when the call has
\* begun or the sleep after the failure of the previous attempt has ended; the
\* k-th wait is initial_delay * 2^(k-1) times a jitter of at least 2/4 and
\* less than 6/4 (so its base is twice the base of the wait before); there
\* are at most max_retries + 1 attempts; after a return there is no further
\* attempt; and when the attempts of a call to the provider all failed, the
\* exception raised is the one of the last attempt.
C23_SequentialBackoff ==
    [][ /\ stage'.attempts # stage.attempts =>
              /\ stage'.attempts = stage.attempts + 1
              /\ stage'.attempts <= MaxRetries + 1
              /\ stage.pc = "attempt"
              /\ stage.attempts > 0 =>
                    /\ stage.error.attempt = stage.attempts
                    /\ Len(stage.waits) = stage.attempts
        /\ stage.pc \in {"returned", "raised"} => stage' = stage
        /\ stage'.pc = "sleep" /\ stage.pc # "sleep" =>
              \E k \in 1..MaxRetries :
                 /\ stage'.error.attempt = k
                 /\ stage'.waits = Append(stage.waits, stage'.waits[k])
                 /\ stage'.waits[k] >= 2 * (InitialDelay * 2^(k - 1))
                 /\ stage'.waits[k] < 6 * (InitialDelay * 2^(k - 1))
        /\ stage'.pc = "sleep" => stage'.returned = NoneS /\ stage'.raised = NoError
        /\ stage'.pc = "raised" /\ stage.pc # "raised" /\ cfg = "api_key" =>
              /\ stage'.attempts = MaxRetries + 1
              /\ Len(stage'.waits) = MaxRetries
              /\ stage'.raised = stage'.error
              /\ stage'.raised.attempt = MaxRetries + 1
              /\ stage'.returned = NoneS
      ]_vars

\* the provider failed in every attempt of a call: the fourth attempt came
\* after three waits and its exception is raised
C23_Witness ==
    /\ stage.pc = "raised" /\ stage.attempts = MaxRetries + 1
    /\ Len(stage.waits) = MaxRetries
    /\ stage.waits[1] < stage.waits[2] /\ stage.waits[3] < stage.waits[2]
    /\ stage.raised = [attempt |-> MaxRetries + 1, kind |-> "call"]

\* C24: an attempt whose response has no text, or a text whose payload is not
\* valid JSON, returns no result; it raises the retry counter by one as a
\* failed call does, and either sleeps the wait of that retry or, at the retry
\* cap, raises its exception to the caller.
C24_MalformedIsRetried ==
    [][ ( /\ stage'.attempts = stage.attempts + 1
          /\ cfg = "api_key"
          /\ stage'.response.ok
          /\ \/ stage'.response.text \in {NoneT, <<>>}
             \/ Unfence(stage'.response.text) # <<"[]">> ) =>
            /\ stage'.returned = NoneS
            /\ stage'.retries = stage.retries + 1
            /\ stage'.error.attempt = stage'.attempts
            /\ stage'.error.kind \notin {NoneS, "call"}
            /\ IF stage.retries < MaxRetries
               THEN /\ stage'.pc = "sleep" /\ stage'.raised = NoError
                    /\ \E jitter \in Jitters :
                          stage'.waits =
                              Append(stage.waits,
                                     InitialDelay * 2^stage.retries * jitter)
               ELSE /\ stage'.pc = "raised" /\ stage'.raised = stage'.error
                    /\ stage'.waits = stage.waits
      ]_vars

\* the last of four attempts got a fenced text that is not JSON: the stage
\* raised the parse error
C24_Witness ==
    /\ stage.pc = "raised" /\ stage.attempts = MaxRetries + 1
    /\ stage.response = Response(<<JsonFence, "x", Fence>>)
    /\ stage.raised.kind = "ValueError: Failed to parse JSON"
    /\ stage.returned = NoneS

\* C25: a step that changes reviewed_by or reviewed_at of the chart leaves the
\* chart with needs_review false; so a step that leaves needs_review true
\* changes neither of them.
C25_ReviewerOnlyWhenReviewed ==
    [][ /\ (chart'.reviewed_by # chart.reviewed_by \/ chart'.reviewed_at # chart.reviewed_at) =>
              ~chart'.needs_review
        /\ chart'.needs_review =>
              chart'.reviewed_by = chart.reviewed_by /\ chart'.reviewed_at = chart.reviewed_at
      ]_vars

\* the update of the last open field stamped the reviewer on a chart that
\* needed review before
C25_Witness ==
    \E u \in Updates :
       /\ upd[u].pc = "done" /\ upd[u].outcome = "200"
       /\ upd[u].reviewed_by # NoneS
       /\ chart.reviewed_by = upd[u].reviewed_by
       /\ chart.reviewed_at > 0
       /\ ~chart.needs_review

\* C26: should_review returns true exactly when an error occurred, or one of
\* the two scores is None, or the text score is below the text threshold, or
\* the vector score is below the vector threshold; a score equal to its
\* threshold is trusted.
C26_ShouldReviewIff ==
    (probe.fn = "should_review" /\ probe.applied) =>
        /\ probe.result \in BOOLEAN
        /\ probe.result <=>
              \/ probe.error_occurred
              \/ probe.similarity_score = NoneNum
              \/ probe.confidence_score = NoneNum
              \/ probe.similarity_score < probe.similarity_threshold
              \/ probe.confidence_score < probe.confidence_threshold
        /\ ( /\ ~probe.error_occurred
             /\ probe.similarity_score # NoneNum
             /\ probe.confidence_score # NoneNum
             /\ probe.similarity_score >= probe.similarity_threshold
             /\ probe.confidence_score >= probe.confidence_threshold ) => ~probe.result

\* both scores equal the thresholds 0.8 and 0.7 and there was no error: the
\* field is trusted
C26_Witness ==
    /\ probe.fn = "should_review" /\ probe.applied
    /\ probe.similarity_threshold = SIMILARITY_THRESHOLD
    /\ probe.confidence_threshold = CONFIDENCE_THRESHOLD
    /\ probe.similarity_score = SIMILARITY_THRESHOLD
    /\ probe.confidence_score = CONFIDENCE_THRESHOLD
    /\ ~probe.error_occurred
    /\ probe.result = FALSE

\* the decision of the template path on the texts of call p under the
\* template items t
TemplateDecision(p, t) ==
    TemplateRecord(1, << RawItem(N_shuso, p.raw_text) >>,
                   << InterpretedItem(N_shuso, p.interpreted_text) >>, t).needs_review

\* template items t2 are template items t1 with the text or the vector
\* threshold of the item lowered
Lowered(t1, t2) ==
    /\ t1[1].name = N_shuso /\ t2[1].name = N_shuso
    /\ t1[1].confidence_threshold = t2[1].confidence_threshold
    /\ NoneNum \notin {t1[1].text_similarity_threshold, t2[1].text_similarity_threshold,
                       t1[1].vector_similarity_threshold, t2[1].vector_similarity_threshold}
    /\ t2[1].text_similarity_threshold <= t1[1].text_similarity_threshold
    /\ t2[1].vector_similarity_threshold <= t1[1].vector_similarity_threshold

\* C27: for the scores and the error flag of a decision, the decision taken
\* with a lower text threshold or a lower vector threshold is true only when
\* the decision itself is true, for should_review and for the decision of the
\* template path.
C27_LoweringNeverRaises ==
    /\ (probe.fn = "should_review" /\ probe.applied) =>
          \A st \in SettingValues, ct \in SettingValues :
             ( /\ st <= probe.similarity_threshold
               /\ ct <= probe.confidence_threshold
               /\ should_review_at(probe.similarity_score, probe.confidence_score,
                                   probe.error_occurred, st, ct) ) => probe.result
    /\ (probe.fn = "template" /\ probe.applied /\ probe.result \in BOOLEAN) =>
          \A t \in ProbeTemplates :
             ( /\ Lowered(probe.template_items, t)
               /\ TemplateDecision(probe, t) ) => probe.result

\* the threshold a field is to be decided with: the one the template item of
\* the field's name sets, else the global default
ThresholdOrDefault(t, item_name, key, default) ==
    LET k == FirstIndex(t, item_name, 1)
    IN IF k # 0 /\ t[k][key] # NoneNum THEN t[k][key] ELSE default

\* C28: the decision on a field is taken with the thresholds 0.8 (text) and
\* 0.7 (vector), unless the template has an item of the field's name that sets
\* a threshold, which is then used: by should_review with the settings of the
\* module and by the template path.
C28_ThresholdsDefaultOrItem ==
    /\ ( /\ probe.fn = "should_review" /\ probe.applied
         /\ probe.similarity_threshold = SIMILARITY_THRESHOLD
         /\ probe.confidence_threshold = CONFIDENCE_THRESHOLD
         /\ ~probe.error_occurred
         /\ probe.similarity_score # NoneNum /\ probe.confidence_score # NoneNum ) =>
          ( probe.result <=>
              \/ probe.similarity_score < (8 * SCALE) \div 10
              \/ probe.confidence_score < (7 * SCALE) \div 10 )
    /\ (probe.fn = "template" /\ probe.applied /\ probe.result \in BOOLEAN) =>
          ( probe.result <=>
              \/ probe.similarity_score <
                    ThresholdOrDefault(probe.template_items, N_shuso,
                                       "text_similarity_threshold", (8 * SCALE) \div 10)
              \/ probe.confidence_score <
                    ThresholdOrDefault(probe.template_items, N_shuso,
                                       "vector_similarity_threshold", (7 * SCALE) \div 10) )

\* the mean of the vector similarity scores (confidence_score) of the field
\* records of a document, 1.0 for a document without field
MeanVector(doc) ==
    LET items == get_all_items_unified(doc)
    IN IF items = <<>>
       THEN [num |-> SCALE, den |-> 1]
       ELSE [num |-> SumSeq([i \in 1..Len(items) |-> items[i].confidence_score]),
             den |-> Len(items)]

\* C29: when a run, default or template, writes the chart's
\* overall_confidence_score (with the document it persists and with its last
\* write), the score equals the mean of the vector similarity scores of the
\* field records of the document the run persisted, and 1.0 when that
\* document has no field.
C29_OverallIsMeanVector ==
    [][ \A r \in Runs :
           ( /\ run[r].pc \in {"aggregate", "status"}
             /\ run'[r].pc \in {"status", "done"}
             /\ run'[r].pc # run[r].pc
             /\ run[r].status # FAILED ) =>
              /\ chart'.overall_confidence_score # NoConfidence
              /\ chart'.overall_confidence_score.num * MeanVector(run[r].result.data).den
                    = MeanVector(run[r].result.data).num
                         * chart'.overall_confidence_score.den
      ]_vars

\* C30: for a pair of texts, both scores are 1.0 when both texts are None,
\* both scores are 0.0 when exactly one of the texts is None or empty, and the
\* text score is 1.0 when the texts are equal and not empty.
C30_ScoresOfEdgeCases ==
    (probe.fn = "similarity" /\ probe.applied) =>
        /\ (probe.raw_text = NoneT /\ probe.interpreted_text = NoneT) =>
              probe.similarity_score = SCALE /\ probe.confidence_score = SCALE
        /\ ((probe.raw_text \in {NoneT, <<>>}) # (probe.interpreted_text \in {NoneT, <<>>})) =>
              probe.similarity_score = 0 /\ probe.confidence_score = 0
        /\ (probe.raw_text = probe.interpreted_text /\ probe.raw_text \notin {NoneT, <<>>}) =>
              probe.similarity_score = SCALE

\* C40: in every configuration a call of extract_raw_data_from_image that has
\* ended has returned a list of items or has raised the exception of its last
\* failed attempt with the retries exhausted; the RuntimeError after the loop
\* is not raised.
C40_ReturnsOrRaisesLast ==
    (stage.fn = "extract_raw_data_from_image" /\ stage.pc \in {"returned", "raised"}) =>
        \/ stage.pc = "returned" /\ stage.returned \in {"[]", "mock"}
        \/ /\ stage.pc = "raised"
           /\ stage.raised.kind # "RuntimeError"
           /\ stage.raised = stage.error
           /\ stage.raised.attempt = stage.attempts
           /\ stage.retries = MaxRetries + 1

\* C31: a chart whose status is FAILED has an error_message, and a status
\* query for the chart made while it is FAILED returns that error_message,
\* also when the status comes from the status cache.
C31_FailedHasMessage ==
    [][ /\ chart.status = FAILED => chart.error_message # NoneS
        /\ chart'.status = FAILED => chart'.error_message # NoneS
        /\ ( /\ reply' # reply \/ status_cache' # status_cache
             /\ reply'.op = "status" /\ reply'.chart_id = ThisChart
             /\ chart.status = FAILED
             /\ chart' = chart ) =>
              reply'.response.error_message = chart.error_message
      ]_vars

\* C32: in every document a run has persisted no two records of review_items
\* have the same item_name.
C32_ItemNameUnique ==
    \A id \in DOMAIN rows :
       \A i, j \in 1..Len(rows[id].review_items) :
          rows[id].review_items[i].item_name = rows[id].review_items[j].item_name => i = j

\* the names of the fields whose authoritative record, the first record of
\* the name in the unified list, has needs_review true
NamesToReview(doc) ==
    LET items == get_all_items_unified(doc)
    IN { items[i].item_name : i \in { k \in 1..Len(items) :
            /\ items[k].needs_review
            /\ \A j \in 1..(k - 1) : items[j].item_name # items[k].item_name } }

\* C33: for every stored document, the list of the fields that still need
\* review holds a field name exactly when the authoritative unified record of
\* that name has needs_review true.
C33_ReviewListIsUnified ==
    \A id \in DOMAIN rows :
       SeqToSet(ItemNames(get_review_items(rows[id], FALSE))) = NamesToReview(rows[id])

\* C34: when two field updates of two different field names of the chart have
\* both reported success, the stored document has both fields with the text
\* of their update and with needs_review false.
C34_NoLostUpdate ==
    \A u1, u2 \in Racers :
       ( /\ u1 # u2
         /\ upd[u1].pc = "done" /\ upd[u1].outcome = "200"
         /\ upd[u2].pc = "done" /\ upd[u2].outcome = "200"
         /\ upd[u1].item_name # upd[u2].item_name
         /\ upd[u1].row = upd[u2].row /\ upd[u1].row \in DOMAIN rows ) =>
          \A u \in {u1, u2} :
             LET items == get_all_items_unified(rows[upd[u].row])
                 k == find_item_by_name(items, upd[u].item_name, 1)
             IN /\ k # 0
                /\ ~items[k].needs_review
                /\ items[k].reviewed_by = upd[u].by
                /\ upd[u].interpreted_text # NoneT =>
                      items[k].interpreted_text = upd[u].interpreted_text

\* C35: when two runs of the chart have both persisted a document and have
\* both ended, the chart's status, needs_review and overall_confidence_score
\* are those of one run, and the stored document is the document of that run.
C35_ChartOfOneRun ==
    ( \A r \in Runs : run[r].pc = "done" /\ run[r].inserted ) =>
        \E r \in Runs :
           /\ chart.status = LastWritten(r)
           /\ chart.needs_review = run[r].result.needs_review
           /\ chart.overall_confidence_score.num * run[r].result.overall_confidence.den =
                 run[r].result.overall_confidence.num * chart.overall_confidence_score.den
           /\ r \in DOMAIN rows
           /\ rows[r] = run[r].result.data

\* C36: once the run of an accepted reprocess request has written PROCESSING
\* and has not ended, no status query for the chart is answered from the
\* status cache with the terminal status (COMPLETED or FAILED) of the run
\* before it.
C36_NoStaleStatus ==
    [][ ( /\ reply' # reply
          /\ reply'.op = "status" /\ reply'.chart_id = ThisChart /\ reply'.cached
          /\ \E r \in Runs : r > 1 /\ run[r].written = <<PROCESSING>> ) =>
            reply'.response.status \notin {COMPLETED, FAILED}
      ]_vars

\* C37: a read of the chart's result after a field update of the COMPLETED
\* chart has succeeded returns, for the field of the update, the text, the
\* needs_review flag and the reviewer of the update, and the chart's
\* recomputed needs_review.
C37_ReadSeesUpdate ==
    [][ \A u \in Updates :
          ( /\ reply' # reply \/ result_cache' # result_cache
            /\ reply'.op = "result" /\ reply'.chart_id = ThisChart
            /\ upd[u].pc = "done" /\ upd[u].outcome = "200"
            /\ chart.status = COMPLETED ) =>
              LET items == reply'.response.extracted_items
                  k == find_item_by_name(items, upd[u].item_name, 1)
              IN /\ k # 0
                 /\ ~items[k].needs_review
                 /\ items[k].reviewed_by = upd[u].by
                 /\ upd[u].interpreted_text # NoneT =>
                       items[k].interpreted_text = upd[u].interpreted_text
                 /\ reply'.response.needs_review = chart.needs_review
      ]_vars

\* C38: a chart whose status is COMPLETED has no error_message, also when the
\* run that ended COMPLETED follows a run that ended FAILED or PARTIAL_SUCCESS.
C38_CompletedHasNoMessage ==
    chart.status = COMPLETED => chart.error_message = NoneS

\* the records of a list whose name is not the given one, in their order
OtherRecords(items, item_name) ==
    LET Other(rec) == rec.item_name # item_name
    IN SelectSeq(items, Other)

\* C39: the steps of a field update that no other operation on the chart
\* interleaves with change, in the stored document, only the
\* record(s) of the named field, and of the chart only needs_review,
\* reviewed_by and reviewed_at: the records of the other fields, the keys
\* that are not fields, the other documents and the chart's status,
\* overall_confidence_score, error_message and template_id are unchanged.
C39_UpdateFrame ==
    [][ \A u \in Updates :
          ( upd'[u] # upd[u] /\ upd'[u].pc # "none" ) =>
             LET item_name == upd'[u].item_name
             IN /\ chart'.status = chart.status
                /\ chart'.overall_confidence_score = chart.overall_confidence_score
                /\ chart'.error_message = chart.error_message
                /\ chart'.template_id = chart.template_id
                /\ DOMAIN rows' = DOMAIN rows
                /\ \A id \in DOMAIN rows :
                      /\ id # upd'[u].row => rows'[id] = rows[id]
                      /\ rows'[id].template_id = rows[id].template_id
                      /\ rows'[id].template_name = rows[id].template_name
                      /\ rows'[id].raw_items = rows[id].raw_items
                      /\ rows'[id].interpreted_items = rows[id].interpreted_items
                      /\ OtherRecords(rows'[id].legacy, item_name) =
                            OtherRecords(rows[id].legacy, item_name)
                      /\ OtherRecords(rows'[id].review_items, item_name) =
                            OtherRecords(rows[id].review_items, item_name)
      ]_vars

\* an update of one field of a document of two fields has succeeded: the
\* record of the field has the reviewer of the update
C39_Witness ==
    \E u \in Updates :
       /\ upd[u].pc = "done" /\ upd[u].outcome = "200"
       /\ upd[u].row \in DOMAIN rows
       /\ LET items == get_all_items_unified(rows[upd[u].row])
              k == find_item_by_name(items, upd[u].item_name, 1)
          IN /\ k # 0 /\ items[k].reviewed_by = upd[u].by
             /\ OtherRecords(items, upd[u].item_name) # <<>>
       /\ chart.reviewed_by = upd[u].by

====
